---- MODULE Spec2Model ----
(***************************************************************************)
(* Server-side Texas Hold'em engine for two seats (ServerPoker in          *)
(* src/server/server.py, on top of JSONSocket in src/network_utils.py).    *)
(*                                                                         *)
(* The server is one sequential thread.  Its position is pc:               *)
(*   "nuova_mano"  top of the match loop, about to call nuova_mano         *)
(*   "giro"        top of the while loop of giro_puntate                   *)
(*   "continua"    gioca_mano has returned, about to call chiedi_continua  *)
(*   "fine"        inizia_partita has left its loop and chiudi has run     *)
(* Each action is one whole handler or one whole iteration of the betting  *)
(* loop, with every broadcast it makes.  The clients are the environment:  *)
(* what they answer is drawn with \E, and a client may close its socket at *)
(* any time (ChiusuraRemota).                                              *)
(***************************************************************************)
EXTENDS Integers, Sequences, FiniteSets, TLC

VARIABLES
    chips,              \* stato_gioco['giocatori'][p]['chips']
    puntata,            \* ...['puntata'], the seat's contribution in this round
    foldato,            \* ...['foldato']
    all_in,             \* ...['all_in']
    mani_giocate,       \* ...['statistiche']['mani_giocate']
    mani_vinte,         \* ...['statistiche']['mani_vinte']
    piatto,             \* stato_gioco['piatto']
    puntata_corrente,   \* stato_gioco['puntata_corrente']
    dealer_button,      \* stato_gioco['dealer_button']
    fase,               \* stato_gioco['fase']
    giocatore_attivo,   \* stato_gioco['giocatore_attivo']
    mazzo,              \* stato_gioco['mazzo'].cards, the last one is dealt next
    carte,              \* stato_gioco['giocatori'][p]['carte'], the hole cards
    carte_comuni,       \* stato_gioco['carte_comuni']
    giocatori_agiti,    \* local set of giro_puntate
    connesso,           \* clients[p]['connesso'], the server's view
    remoto_aperto,      \* whether the client's end of the socket is still open
    pc,                 \* the server's position
    inviati,            \* messages the last server step sent, per seat, in order
    ultimo,             \* what the last server step was (operation, seat, input, outcome)
    chips_inizio_mano,  \* chip stacks when the current hand was started
    disconnessioni,     \* how many times gestisci_disconnessione has run
    rilanci,            \* raises accepted so far in the match (bounded by MaxRilanci)
    valutazione,        \* the last call of the hand evaluator: arguments and result
    buffer              \* per seat, the messages the client has written that receive has
                        \* not returned yet (socket queue, then JSONSocket._buffer)

vars == << chips, puntata, foldato, all_in, mani_giocate, mani_vinte, piatto,
           puntata_corrente, dealer_button, fase, giocatore_attivo, mazzo, carte,
           carte_comuni, giocatori_agiti,
           connesso, remoto_aperto, pc, inviati, ultimo, chips_inizio_mano,
           disconnessioni, rilanci, valutazione, buffer >>

\* The game state as the handlers see it: one record, so that a handler is a
\* function from the state before to the state after.
gioco == << chips, puntata, foldato, all_in, mani_giocate, mani_vinte, piatto,
            puntata_corrente, dealer_button, fase, giocatore_attivo, mazzo, carte,
            carte_comuni >>

(***************************************************************************)
(* Program constants and model bounds                                      *)
(***************************************************************************)
piccolo_blind == 5
grande_blind == 10
chips_iniziali == 1000

\* Hands played in one match (the match loop itself is unbounded).
MaxMani == 2
\* A raise may leave the raiser with this many chips (input "all but Resto").
Resto == 2
\* Raises accepted within one match (the code sets no limit).
MaxRilanci == 1

Seats == {0, 1}

Min(a, b) == IF a < b THEN a ELSE b
Max(a, b) == IF a > b THEN a ELSE b

(***************************************************************************)
(* Cards and the deck (src/poker_game.py).  A card is its position in the  *)
(* list Deck.reset builds, "for suit in SUITS for value in VALUES":        *)
(* 13 * suit + index of the value.                                         *)
(***************************************************************************)
SUITS == 0..3

\* VALUE_MAP: the ranks 2..14 of '2'..'A'
VALUES == 2..14

Card(value, suit) == 13 * suit + (value - 2)

\* rank as it would be if the ace were always the lowest card.
rank_asso_basso(c) == IF c % 13 = 12 THEN 1 ELSE (c % 13) + 2

rank(c) == (c % 13) + 2

suit(c) == c \div 13

\* Deck.reset before the shuffle
MazzoOrdinato == [i \in 1..52 |-> i - 1]

\* Deck.deal as it would be if it read the top card without removing it.
deal_senza_pop(cards, num_cards) ==
    [ dealt_cards |-> [i \in 1..num_cards |-> cards[Len(cards)]],
      cards |-> cards ]

\* Deck.deal: num_cards times "dealt_cards.append(self.cards.pop())"
deal(cards, num_cards) ==
    [ dealt_cards |-> [i \in 1..num_cards |-> cards[Len(cards) + 1 - i]],
      cards |-> SubSeq(cards, 1, Len(cards) - num_cards) ]

Reverse(seq) == [i \in 1..Len(seq) |-> seq[Len(seq) + 1 - i]]

\* a shuffle that leaves the cards of cima on top, cima[1] to be dealt first
MazzoCon(cima) ==
    LET sopra == {cima[i] : i \in 1..Len(cima)}
    IN  SelectSeq(MazzoOrdinato, LAMBDA c : c \notin sopra) \o Reverse(cima)

\* Outcomes of random.shuffle the match is played with: seat 0 is dealt
\* A-K of hearts against a pair of twos on a board Q-J-10 of hearts, 3-4 of
\* spades; the same with the hole cards exchanged; and a board that plays
\* for both seats.
Mescolate ==
    { MazzoCon(<< Card(14, 1), Card(13, 1), Card(2, 3), Card(2, 2),
                  Card(12, 1), Card(11, 1), Card(10, 1), Card(3, 0), Card(4, 0) >>),
      MazzoCon(<< Card(2, 3), Card(2, 2), Card(14, 1), Card(13, 1),
                  Card(12, 1), Card(11, 1), Card(10, 1), Card(3, 0), Card(4, 0) >>),
      MazzoCon(<< Card(2, 3), Card(3, 2), Card(2, 2), Card(3, 3),
                  Card(14, 0), Card(13, 1), Card(12, 0), Card(11, 0), Card(9, 0) >>) }

\* Strides coprime to 52 and offsets: the shuffles i |-> Passo * i + Scarto.
Passi == {1, 3, 5, 7, 9, 11, 15, 17, 19, 21, 23, 25}

\* the card at position x of the deck sorted by value, then by suit
PerValore(x) == Card(2 + x \div 4, x % 4)

MescolateAffini ==
    { [i \in 1..52 |-> PerValore((a * (i - 1) + k) % 52)] : a \in Passi, k \in 0..51 }

(***************************************************************************)
(* The hand evaluator                                                      *)
(***************************************************************************)
HIGH_CARD == 1
PAIR == 2
TWO_PAIR == 3
THREE_OF_A_KIND == 4
STRAIGHT == 5
FLUSH == 6
FULL_HOUSE == 7
FOUR_OF_A_KIND == 8
STRAIGHT_FLUSH == 9
ROYAL_FLUSH == 10

\* sorted(xs, reverse=True) of a sequence of integers
RECURSIVE sorted_reverse(_)
sorted_reverse(xs) ==
    IF xs = << >> THEN << >>
    ELSE LET i == CHOOSE i \in 1..Len(xs) : \A j \in 1..Len(xs) : xs[i] >= xs[j]
         IN  << xs[i] >> \o sorted_reverse(SubSeq(xs, 1, i - 1) \o SubSeq(xs, i + 1, Len(xs)))

\* sorted(S, reverse=True) of a set of integers
RECURSIVE sorted_reverse_set(_)
sorted_reverse_set(S) ==
    IF S = {} THEN << >>
    ELSE LET m == CHOOSE m \in S : \A x \in S : m >= x
         IN  << m >> \o sorted_reverse_set(S \ {m})

\* Python's order on lists of integers
RECURSIVE lista_maggiore(_, _)
lista_maggiore(a, b) ==
    IF a = << >> THEN FALSE
    ELSE IF b = << >> THEN TRUE
    ELSE IF a[1] # b[1] THEN a[1] > b[1]
    ELSE lista_maggiore(Tail(a), Tail(b))

\* Python's order on the tuples (HandRank, list)
chiave_maggiore(k1, k2) ==
    \/ k1.rank > k2.rank
    \/ k1.rank = k2.rank /\ lista_maggiore(k1.values, k2.values)

_evaluate_five_cards(cards) ==
    LET ranks == [i \in 1..5 |-> rank(cards[i])]
        suits == {suit(cards[i]) : i \in 1..5}
        unique_ranks == {ranks[i] : i \in 1..5}
        \* Counter(ranks), and the ranks that occur 4, 3, 2 times and once
        rank_counts == [r \in unique_ranks |-> Cardinality({i \in 1..5 : ranks[i] = r})]
        four_kind == {r \in unique_ranks : rank_counts[r] = 4}
        three_kind == {r \in unique_ranks : rank_counts[r] = 3}
        pairs == {r \in unique_ranks : rank_counts[r] = 2}
        kickers == {r \in unique_ranks : rank_counts[r] = 1}
        max_rank == CHOOSE m \in unique_ranks : \A r \in unique_ranks : m >= r
        min_rank == CHOOSE m \in unique_ranks : \A r \in unique_ranks : m <= r
        is_flush == Cardinality(suits) = 1
        is_straight == \/ Cardinality(unique_ranks) = 5 /\ max_rank - min_rank = 4
                       \/ unique_ranks = {2, 3, 4, 5, 14}
        straight_high == IF unique_ranks = {2, 3, 4, 5, 14} THEN 5 ELSE max_rank
        uno(S) == CHOOSE r \in S : TRUE
    IN  IF is_straight /\ is_flush /\ min_rank = 10
            THEN [rank |-> ROYAL_FLUSH, values |-> << 14 >>]
        ELSE IF is_straight /\ is_flush
            THEN [rank |-> STRAIGHT_FLUSH, values |-> << straight_high >>]
        ELSE IF four_kind # {} /\ kickers # {}
            THEN [rank |-> FOUR_OF_A_KIND, values |-> << uno(four_kind), uno(kickers) >>]
        ELSE IF three_kind # {} /\ pairs # {}
            THEN [rank |-> FULL_HOUSE, values |-> << uno(three_kind), uno(pairs) >>]
        ELSE IF is_flush
            THEN [rank |-> FLUSH, values |-> sorted_reverse(ranks)]
        ELSE IF is_straight
            THEN [rank |-> STRAIGHT, values |-> << straight_high >>]
        ELSE IF three_kind # {}
            THEN [rank |-> THREE_OF_A_KIND,
                  values |-> << uno(three_kind) >> \o sorted_reverse_set(kickers)]
        ELSE IF Cardinality(pairs) = 2
            THEN [rank |-> TWO_PAIR,
                  values |-> sorted_reverse_set(pairs) \o << uno(kickers) >>]
        ELSE IF Cardinality(pairs) = 1 /\ Cardinality(kickers) = 3
            THEN [rank |-> PAIR,
                  values |-> << uno(pairs) >> \o sorted_reverse_set(kickers)]
        ELSE [rank |-> HIGH_CARD, values |-> sorted_reverse(ranks)]

\* prossima_combinazione as it would be if the loop stopped after the first
\* combination.
prossima_combinazione_nessuna(c, n) == << >>

\* the next 5 positions, in the order of itertools.combinations, after c
\* (<< >> after the last one)
prossima_combinazione(c, n) ==
    LET mobili == {i \in 1..5 : c[i] < n - 5 + i}
    IN  IF mobili = {} THEN << >>
        ELSE LET i == CHOOSE i \in mobili : \A j \in mobili : i >= j
             IN  [j \in 1..5 |-> IF j < i THEN c[j] ELSE c[i] + 1 + (j - i)]

\* the loop "for combo in combinations(cards, 5)" from combination c on
RECURSIVE migliore_da(_, _, _)
migliore_da(cards, c, best_rank) ==
    IF c = << >> THEN best_rank
    ELSE LET hand_rank == _evaluate_five_cards([i \in 1..5 |-> cards[c[i]]])
         IN  migliore_da(cards, prossima_combinazione(c, Len(cards)),
                         IF chiave_maggiore(hand_rank, best_rank)
                         THEN hand_rank ELSE best_rank)

\* evaluate_hand as it would be if it looked at the first five cards only.
evaluate_hand_prime_cinque(cards) == _evaluate_five_cards(cards)

\* what a call that raises ValueError gives its caller in place of a key
ValueError == [rank |-> -1, values |-> << >>]

evaluate_hand(cards) ==
    IF Len(cards) < 5 THEN ValueError
    ELSE IF Len(cards) > 5
    THEN migliore_da(cards, << 1, 2, 3, 4, 5 >>, [rank |-> HIGH_CARD, values |-> << >>])
    ELSE _evaluate_five_cards(cards)

\* the loop "for v1, v2 in zip(values1, values2)"
RECURSIVE confronta_valori(_, _)
confronta_valori(values1, values2) ==
    IF values1 = << >> \/ values2 = << >> THEN 0
    ELSE IF values1[1] > values2[1] THEN 1
    ELSE IF values1[1] < values2[1] THEN -1
    ELSE confronta_valori(Tail(values1), Tail(values2))

\* compare_hands as it would be with the two results exchanged.
compare_hands_scambiato(hand1_cards, hand2_cards) ==
    LET k1 == evaluate_hand(hand1_cards)
        k2 == evaluate_hand(hand2_cards)
    IN  IF k1.rank > k2.rank THEN -1
        ELSE IF k1.rank < k2.rank THEN 1
        ELSE 0 - confronta_valori(k1.values, k2.values)

\* compare_hands as it would be if it went straight to the values.
compare_hands_solo_valori(hand1_cards, hand2_cards) ==
    confronta_valori(evaluate_hand(hand1_cards).values, evaluate_hand(hand2_cards).values)

compare_hands(hand1_cards, hand2_cards) ==
    LET k1 == evaluate_hand(hand1_cards)
        k2 == evaluate_hand(hand2_cards)
    IN  IF k1.rank > k2.rank THEN 1
        ELSE IF k1.rank < k2.rank THEN -1
        ELSE confronta_valori(k1.values, k2.values)

(***************************************************************************)
(* The state record                                                        *)
(***************************************************************************)
Stato ==
    [ chips |-> chips, puntata |-> puntata, foldato |-> foldato, all_in |-> all_in,
      mani_giocate |-> mani_giocate, mani_vinte |-> mani_vinte, piatto |-> piatto,
      puntata_corrente |-> puntata_corrente, dealer_button |-> dealer_button,
      fase |-> fase, giocatore_attivo |-> giocatore_attivo, mazzo |-> mazzo,
      carte |-> carte, carte_comuni |-> carte_comuni ]

Imposta(S) ==
    /\ chips' = S.chips
    /\ puntata' = S.puntata
    /\ foldato' = S.foldato
    /\ all_in' = S.all_in
    /\ mani_giocate' = S.mani_giocate
    /\ mani_vinte' = S.mani_vinte
    /\ piatto' = S.piatto
    /\ puntata_corrente' = S.puntata_corrente
    /\ dealer_button' = S.dealer_button
    /\ fase' = S.fase
    /\ giocatore_attivo' = S.giocatore_attivo
    /\ mazzo' = S.mazzo
    /\ carte' = S.carte
    /\ carte_comuni' = S.carte_comuni

(***************************************************************************)
(* Messages.  A step's output is a function seat -> sequence of messages.  *)
(***************************************************************************)
Niente == [s \in Seats |-> << >>]

Cat(a, b) == [s \in Seats |-> a[s] \o b[s]]

\* invia_messaggio: nothing is sent to a client already marked disconnected.
invia_messaggio(conn, p, m) ==
    [s \in Seats |-> IF s = p /\ conn[s] THEN << m >> ELSE << >>]

\* broadcast: to every client still marked connected.
broadcast(conn, m) == [s \in Seats |-> IF conn[s] THEN << m >> ELSE << >>]

\* broadcast_stato_gioco: the public snapshot of S.
broadcast_stato_gioco(conn, S) ==
    broadcast(conn, [ type |-> "game_state", phase |-> S.fase, pot |-> S.piatto,
                      community_cards |-> S.carte_comuni,
                      current_bet |-> S.puntata_corrente, chips |-> S.chips,
                      bet |-> S.puntata, folded |-> S.foldato, all_in |-> S.all_in,
                      active_player |-> S.giocatore_attivo,
                      dealer_button |-> S.dealer_button ])

(***************************************************************************)
(* Initial state: avvia has accepted two joins and calls inizia_partita.   *)
(***************************************************************************)
StatoIniziale ==
    /\ chips = [p \in Seats |-> chips_iniziali]
    /\ puntata = [p \in Seats |-> 0]
    /\ foldato = [p \in Seats |-> FALSE]
    /\ all_in = [p \in Seats |-> FALSE]
    /\ mani_giocate = [p \in Seats |-> 0]
    /\ mani_vinte = [p \in Seats |-> 0]
    /\ piatto = 0
    /\ puntata_corrente = 0
    /\ dealer_button = 0
    /\ fase = "attesa"
    /\ giocatore_attivo = 0
    /\ mazzo = << >>
    /\ carte = [p \in Seats |-> << >>]
    /\ carte_comuni = << >>
    /\ giocatori_agiti = {}
    /\ connesso = [p \in Seats |-> TRUE]
    /\ remoto_aperto = [p \in Seats |-> TRUE]
    /\ pc = "nuova_mano"
    /\ inviati = Niente
    /\ ultimo = [op |-> "avvia", id |-> -1, azione |-> "", importo |-> 0, esito |-> ""]
    /\ chips_inizio_mano = [p \in Seats |-> chips_iniziali]
    /\ disconnessioni = 0
    /\ rilanci = 0
    /\ buffer = [p \in Seats |-> << >>]

\* no hand has been evaluated yet
NessunaValutazione ==
    [ op |-> "nessuna", cards |-> << >>, altra |-> << >>,
      chiave |-> [rank |-> 0, values |-> << >>], confronto |-> 0 ]

Init ==
    /\ StatoIniziale
    /\ valutazione = NessunaValutazione

(***************************************************************************)
(* nuova_mano and pubblica_blind                                           *)
(***************************************************************************)
\* ResetMano as it would be if the loop over the seats left the folded and
\* all-in flags as they were.
ResetMano_senza_flag(S, m) ==
    [S EXCEPT !.mazzo = m,
              !.carte_comuni = << >>,
              !.carte = [p \in Seats |-> << >>],
              !.piatto = 0,
              !.puntata_corrente = 0,
              !.fase = "pre_flop",
              !.puntata = [p \in Seats |-> 0],
              !.mani_giocate = [p \in Seats |-> @[p] + 1],
              !.dealer_button = 1 - @]

\* The reset at the top of nuova_mano, up to the dealer-button flip.  m is the
\* freshly shuffled deck Deck() returns.
ResetMano(S, m) ==
    [S EXCEPT !.mazzo = m,
              !.carte_comuni = << >>,
              !.carte = [p \in Seats |-> << >>],
              !.piatto = 0,
              !.puntata_corrente = 0,
              !.fase = "pre_flop",
              !.puntata = [p \in Seats |-> 0],
              !.foldato = [p \in Seats |-> FALSE],
              !.all_in = [p \in Seats |-> FALSE],
              !.mani_giocate = [p \in Seats |-> @[p] + 1],
              !.dealer_button = 1 - @]

\* "for id_giocatore in range(2): carte = mazzo.deal(2)"
DistribuisciCarte(S) ==
    LET d0 == deal(S.mazzo, 2)
        d1 == deal(d0.cards, 2)
    IN  [S EXCEPT !.carte = [p \in Seats |-> IF p = 0 THEN d0.dealt_cards
                                                      ELSE d1.dealt_cards],
                  !.mazzo = d1.cards]

\* pubblica_blind as it would be if a blind were not capped by the stack.
pubblica_blind_senza_limite(S) ==
    LET dealer == S.dealer_button
        giocatore_piccolo == dealer
        giocatore_grande == 1 - dealer
        S1 == [S EXCEPT !.chips[giocatore_piccolo] = @ - piccolo_blind,
                        !.puntata[giocatore_piccolo] = piccolo_blind,
                        !.piatto = @ + piccolo_blind]
        S2 == [S1 EXCEPT !.chips[giocatore_grande] = @ - grande_blind,
                         !.puntata[giocatore_grande] = grande_blind,
                         !.piatto = @ + grande_blind]
    IN  [S2 EXCEPT !.puntata_corrente = grande_blind,
                   !.giocatore_attivo = dealer]

pubblica_blind(S) ==
    LET dealer == S.dealer_button
        giocatore_piccolo == dealer
        giocatore_grande == 1 - dealer
        importo_piccolo == Min(piccolo_blind, S.chips[giocatore_piccolo])
        S1 == [S EXCEPT !.chips[giocatore_piccolo] = @ - importo_piccolo,
                        !.puntata[giocatore_piccolo] = importo_piccolo,
                        !.piatto = @ + importo_piccolo]
        importo_grande == Min(grande_blind, S1.chips[giocatore_grande])
        S2 == [S1 EXCEPT !.chips[giocatore_grande] = @ - importo_grande,
                         !.puntata[giocatore_grande] = importo_grande,
                         !.piatto = @ + importo_grande]
    IN  [S2 EXCEPT !.puntata_corrente = importo_grande,
                   !.giocatore_attivo = dealer]

\* The private deal message of seat p.
MsgDeal(S, p) ==
    [type |-> "deal", cards |-> S.carte[p], dealer_button |-> S.dealer_button]

(***************************************************************************)
(* Pot award                                                               *)
(***************************************************************************)
NonFoldati(S) == {p \in Seats : ~S.foldato[p]}

\* MsgHandResult as it would be if it showed the cards of the folded seats too.
MsgHandResult_tutte(S, id_vincitore, motivo, mostrate) ==
    [ type |-> "hand_result", winner_id |-> id_vincitore, pot |-> S.piatto,
      reason |-> motivo, all_cards |-> [p \in Seats |-> S.carte[p]],
      stats |-> [mani_giocate |-> S.mani_giocate, mani_vinte |-> S.mani_vinte] ]

MsgHandResult(S, id_vincitore, motivo, mostrate) ==
    [ type |-> "hand_result", winner_id |-> id_vincitore, pot |-> S.piatto,
      reason |-> motivo, all_cards |-> [p \in mostrate |-> S.carte[p]],
      stats |-> [mani_giocate |-> S.mani_giocate, mani_vinte |-> S.mani_vinte] ]

\* assegna_piatto as it would be without "statistiche['mani_vinte'] += 1".
assegna_piatto_senza_vittoria(conn, S, id_vincitore, motivo) ==
    LET S1 == [S EXCEPT !.chips[id_vincitore] = @ + S.piatto]
    IN  [ s |-> [S1 EXCEPT !.piatto = 0],
          parziale |-> S1,
          out |-> Cat(broadcast(conn, MsgHandResult(S1, id_vincitore, motivo, NonFoldati(S1))),
                      broadcast_stato_gioco(conn, S1)) ]

\* assegna_piatto as it would be if the winner were credited the share that
\* dividi_piatto gives, the rest of the pot going back to the other seat.
assegna_piatto_con_restituzione(conn, S, id_vincitore, motivo) ==
    LET S1 == [S EXCEPT !.chips[id_vincitore] = @ + (S.piatto \div 2),
                        !.chips[1 - id_vincitore] = @ + (S.piatto - (S.piatto \div 2)),
                        !.mani_vinte[id_vincitore] = @ + 1]
    IN  [ s |-> [S1 EXCEPT !.piatto = 0],
          parziale |-> S1,
          out |-> Cat(broadcast(conn, MsgHandResult(S1, id_vincitore, motivo, NonFoldati(S1))),
                      broadcast_stato_gioco(conn, S1)) ]

\* assegna_piatto: credit, hand_result, snapshot, and only then piatto = 0.
\* s is the state after, out the messages, parziale the state in which the
\* broadcasts are made (the state left behind if a send raises).
assegna_piatto(conn, S, id_vincitore, motivo) ==
    LET S1 == [S EXCEPT !.chips[id_vincitore] = @ + S.piatto,
                        !.mani_vinte[id_vincitore] = @ + 1]
    IN  [ s |-> [S1 EXCEPT !.piatto = 0],
          parziale |-> S1,
          out |-> Cat(broadcast(conn, MsgHandResult(S1, id_vincitore, motivo, NonFoldati(S1))),
                      broadcast_stato_gioco(conn, S1)) ]

\* dividi_piatto as it would be if the first seat were given the remainder.
dividi_piatto_con_resto(conn, S, ids_giocatori) ==
    LET importo_per_giocatore == S.piatto \div Cardinality(ids_giocatori)
        resto == S.piatto % Cardinality(ids_giocatori)
        S1 == [S EXCEPT !.chips = [p \in Seats |-> IF p \in ids_giocatori
                                                      THEN @[p] + importo_per_giocatore
                                                           + (IF p = 0 THEN resto ELSE 0)
                                                      ELSE @[p]],
                        !.mani_vinte = [p \in Seats |-> IF p \in ids_giocatori
                                                           THEN @[p] + 1 ELSE @[p]]]
    IN  [ s |-> [S1 EXCEPT !.piatto = 0],
          parziale |-> S1,
          out |-> broadcast(conn, MsgHandResult(S1, -1, "split", ids_giocatori)) ]

dividi_piatto(conn, S, ids_giocatori) ==
    LET importo_per_giocatore == S.piatto \div Cardinality(ids_giocatori)
        S1 == [S EXCEPT !.chips = [p \in Seats |-> IF p \in ids_giocatori
                                                      THEN @[p] + importo_per_giocatore
                                                      ELSE @[p]],
                        !.mani_vinte = [p \in Seats |-> IF p \in ids_giocatori
                                                           THEN @[p] + 1 ELSE @[p]]]
    IN  [ s |-> [S1 EXCEPT !.piatto = 0],
          parziale |-> S1,
          out |-> broadcast(conn, MsgHandResult(S1, -1, "split", ids_giocatori)) ]

(***************************************************************************)
(* The legal actions of giro_puntate                                       *)
(***************************************************************************)
Fold(S, p) == [S EXCEPT !.foldato[p] = TRUE]

\* check is refused when the seat still has something to call
CheckRifiutato(S, p) == S.puntata[p] < S.puntata_corrente

da_chiamare(S, p) == Min(S.puntata_corrente - S.puntata[p], S.chips[p])

\* Call as it would be with the pot update left out.
CallSenzaPiatto(S, p) ==
    LET d == da_chiamare(S, p)
        S1 == [S EXCEPT !.chips[p] = @ - d,
                        !.puntata[p] = @ + d]
    IN  [S1 EXCEPT !.all_in[p] = IF S1.chips[p] = 0 THEN TRUE ELSE @]

\* Call as it would be without "da_chiamare = min(da_chiamare, chips)".
CallSenzaLimite(S, p) ==
    LET d == S.puntata_corrente - S.puntata[p]
        S1 == [S EXCEPT !.chips[p] = @ - d,
                        !.puntata[p] = @ + d,
                        !.piatto = @ + d]
    IN  [S1 EXCEPT !.all_in[p] = IF S1.chips[p] = 0 THEN TRUE ELSE @]

Call(S, p) ==
    LET d == da_chiamare(S, p)
        S1 == [S EXCEPT !.chips[p] = @ - d,
                        !.puntata[p] = @ + d,
                        !.piatto = @ + d]
    IN  [S1 EXCEPT !.all_in[p] = IF S1.chips[p] = 0 THEN TRUE ELSE @]

\* rilancio_minimo as it would be without the doubling.
rilancio_minimo_senza_raddoppio(S, p) == S.puntata_corrente - S.puntata[p]

rilancio_minimo(S, p) == S.puntata_corrente * 2 - S.puntata[p]

RaiseRifiutato(S, p, importo) ==
    importo < rilancio_minimo(S, p) /\ importo < S.chips[p]

\* ImportoRaise as it would be without "importo = min(importo, chips)".
ImportoRaiseSenzaLimite(S, p, importo) == importo

\* the amount actually moved by an accepted raise
ImportoRaise(S, p, importo) == Min(importo, S.chips[p])

Raise(S, p, importo) ==
    LET imp == ImportoRaise(S, p, importo)
        S1 == [S EXCEPT !.chips[p] = @ - imp,
                        !.piatto = @ + imp,
                        !.puntata[p] = @ + imp]
        S2 == [S1 EXCEPT !.puntata_corrente = S1.puntata[p]]
    IN  [S2 EXCEPT !.all_in[p] = IF S2.chips[p] = 0 THEN TRUE ELSE @]

MsgAzione(p, azione, importo) ==
    [type |-> "player_action", player_id |-> p, action |-> azione, amount |-> importo]

\* gestisci_fold_forzato as it would be if the hand_result were reported as a
\* voluntary fold.
gestisci_fold_forzato_come_fold(conn, S, p, motivo) ==
    IF S.foldato[p]
    THEN [s |-> S, parziale |-> S, out |-> Niente, ritorno |-> FALSE]
    ELSE LET S1 == [S EXCEPT !.foldato[p] = TRUE, !.all_in[p] = FALSE]
             out1 == Cat(broadcast(conn, MsgAzione(p, "forced_fold", 0)),
                         broadcast_stato_gioco(conn, S1))
             a == assegna_piatto(conn, S1, 1 - p, "fold")
         IN  [s |-> a.s, parziale |-> a.parziale, out |-> Cat(out1, a.out),
              ritorno |-> TRUE]

\* gestisci_fold_forzato as it would be without the "already folded" early return.
gestisci_fold_forzato_senza_guardia(conn, S, p, motivo) ==
    LET S1 == [S EXCEPT !.foldato[p] = TRUE, !.all_in[p] = FALSE]
        out1 == Cat(broadcast(conn, MsgAzione(p, "forced_fold", 0)),
                    broadcast_stato_gioco(conn, S1))
        giocatori_attivi == NonFoldati(S1)
    IN  IF Cardinality(giocatori_attivi) = 1
        THEN LET a == assegna_piatto(conn, S1,
                                     CHOOSE q \in giocatori_attivi : TRUE, motivo)
             IN  [s |-> a.s, parziale |-> a.parziale, out |-> Cat(out1, a.out),
                  ritorno |-> TRUE]
        ELSE [s |-> S1, parziale |-> S1, out |-> out1, ritorno |-> FALSE]

(***************************************************************************)
(* gestisci_fold_forzato                                                   *)
(***************************************************************************)
gestisci_fold_forzato(conn, S, p, motivo) ==
    IF S.foldato[p]
    THEN [s |-> S, parziale |-> S, out |-> Niente, ritorno |-> FALSE]
    ELSE LET S1 == [S EXCEPT !.foldato[p] = TRUE, !.all_in[p] = FALSE]
             out1 == Cat(broadcast(conn, MsgAzione(p, "forced_fold", 0)),
                         broadcast_stato_gioco(conn, S1))
             giocatori_attivi == NonFoldati(S1)
         IN  IF Cardinality(giocatori_attivi) = 1
             THEN LET a == assegna_piatto(conn, S1,
                                          CHOOSE q \in giocatori_attivi : TRUE, motivo)
                  IN  [s |-> a.s, parziale |-> a.parziale, out |-> Cat(out1, a.out),
                       ritorno |-> TRUE]
             ELSE [s |-> S1, parziale |-> S1, out |-> out1, ritorno |-> FALSE]

(***************************************************************************)
(* gestisci_disconnessione                                                 *)
(***************************************************************************)
\* gestisci_disconnessione as it would be if it emptied the pot without
\* crediting it.
gestisci_disconnessione_senza_accredito(conn, S, p) ==
    LET altro_id == 1 - p
        S1 == IF S.piatto > 0
              THEN [S EXCEPT !.mani_vinte[altro_id] = @ + 1,
                             !.piatto = 0]
              ELSE S
    IN  [ s |-> S1,
          out |-> invia_messaggio(conn, altro_id,
                                  [type |-> "game_over", winner |-> altro_id,
                                   motivo |-> "forfait"]) ]

\* conn is the connection table after clients[p]['connesso'] = False.
gestisci_disconnessione(conn, S, p) ==
    LET altro_id == 1 - p
        S1 == IF S.piatto > 0
              THEN [S EXCEPT !.chips[altro_id] = @ + S.piatto,
                             !.mani_vinte[altro_id] = @ + 1,
                             !.piatto = 0]
              ELSE S
    IN  [ s |-> S1,
          out |-> invia_messaggio(conn, altro_id,
                                  [type |-> "game_over", winner |-> altro_id,
                                   motivo |-> "forfait"]) ]

(***************************************************************************)
(* Bookkeeping shared by the actions                                       *)
(***************************************************************************)
Ult(op, id, azione, importo, esito) ==
    [op |-> op, id |-> id, azione |-> azione, importo |-> importo, esito |-> esito]

(***************************************************************************)
(* JSONSocket.receive, through ricevi_messaggio.  It returns the first     *)
(* line already buffered, whatever prompt it was written for; only when    *)
(* nothing is buffered does it wait, up to the timeout, for a new one.     *)
(***************************************************************************)
\* "dati_azione.get('action')": an object without the key matches no branch
ComeAzione(m) == IF m.tipo = "azione" THEN m.azione ELSE "altro"

\* "bool(dati.get('continue', False))" as one of Risposte
ComeRisposta(m) ==
    IF m.tipo = "continua" THEN (IF m.valore THEN "true" ELSE "false") ELSE "assente"

\* the step u can be what giro_puntate does with what receive returns: a
\* buffered message is returned first, and then no timeout occurs
Ricevibile(b, u) ==
    (u.op = "turno" /\ b[u.id] # << >>)
        => /\ u.azione = ComeAzione(Head(b[u.id]))
           /\ u.azione = "raise" => u.importo = Head(b[u.id]).importo

\* "del self._buffer[:newline_index + 1]"
Letto(b, u) ==
    IF u.op = "turno" /\ b[u.id] # << >> THEN [b EXCEPT ![u.id] = Tail(@)] ELSE b

\* A broadcast that raises while sending to seat q has reached the seats before q.
Prima(conn, q, m) == [s \in Seats |-> IF s < q /\ conn[s] THEN << m >> ELSE << >>]

\* A send to a closed peer raises OSError, which invia_messaggio does not catch
\* (it catches ConnectionClosed, which JSONSocket.send never raises): the
\* exception reaches "except Exception" in inizia_partita, which prints it,
\* and "finally" runs chiudi.  S is the state at that moment.
ErroreGenerico(S, out, op, q) ==
    /\ Imposta(S)
    /\ inviati' = out
    /\ pc' = "fine"
    /\ giocatori_agiti' = {}
    /\ ultimo' = Ult(op, q, "", 0, "invio_fallito")
    /\ UNCHANGED << connesso, remoto_aperto, disconnessioni, rilanci, valutazione, buffer >>

(***************************************************************************)
(* The environment: a client closes its socket                             *)
(***************************************************************************)
ChiusuraRemota(p) ==
    /\ pc # "fine"
    /\ remoto_aperto[p]
    /\ remoto_aperto' = [remoto_aperto EXCEPT ![p] = FALSE]
    /\ inviati' = Niente
    /\ ultimo' = Ult("chiusura_remota", p, "", 0, "")
    /\ UNCHANGED << gioco, giocatori_agiti, connesso, pc, chips_inizio_mano,
                    disconnessioni, rilanci, valutazione, buffer >>

(***************************************************************************)
(* nuova_mano, followed by the entry into the pre-flop giro_puntate        *)
(***************************************************************************)
NuovaMano(m) ==
    /\ pc = "nuova_mano"
    /\ mani_giocate[0] < MaxMani
    /\ LET S1 == pubblica_blind(DistribuisciCarte(ResetMano(Stato, m)))
       IN  /\ Imposta(S1)
           /\ inviati' = Cat(Cat(invia_messaggio(connesso, 0, MsgDeal(S1, 0)),
                                 invia_messaggio(connesso, 1, MsgDeal(S1, 1))),
                             broadcast_stato_gioco(connesso, S1))
    /\ giocatori_agiti' = {}
    /\ pc' = "giro"
    /\ chips_inizio_mano' = chips
    /\ ultimo' = Ult("nuova_mano", -1, "", 0, "ok")
    /\ UNCHANGED << connesso, remoto_aperto, disconnessioni, rilanci, valutazione, buffer >>

\* the deal message to the closed peer q raises: the blinds are not posted
NuovaManoInvioFallito(q, m) ==
    /\ pc = "nuova_mano"
    /\ mani_giocate[0] < MaxMani
    /\ ~remoto_aperto[q]
    /\ chips_inizio_mano' = chips
    /\ LET S1 == DistribuisciCarte(ResetMano(Stato, m))
       IN  ErroreGenerico(S1, [s \in Seats |-> IF s < q /\ connesso[s]
                                               THEN << MsgDeal(S1, s) >> ELSE << >>],
                          "nuova_mano", q)

(***************************************************************************)
(* giro_puntate: the tests at the top of the while loop                    *)
(***************************************************************************)
attivi_che_possono_agire(S) == {p \in Seats : ~S.foldato[p] /\ ~S.all_in[p]}

\* GiroFinito as it would be if the one seat left were not asked to have
\* matched the current bet.
GiroFinito_senza_pareggio(S, agiti) ==
    LET a == attivi_che_possono_agire(S)
    IN  \/ Cardinality(a) = 0
        \/ Cardinality(a) = 1
        \/ /\ S.giocatore_attivo \in a
           /\ Cardinality(agiti) = 2
           /\ \A p \in Seats : \/ S.puntata[p] = S.puntata_corrente
                               \/ S.foldato[p]
                               \/ S.all_in[p]

\* the three break statements, in the order of the loop body
GiroFinito(S, agiti) ==
    LET a == attivi_che_possono_agire(S)
    IN  \/ Cardinality(a) = 0
        \/ /\ Cardinality(a) = 1
           /\ \A p \in a : S.puntata[p] >= S.puntata_corrente
        \/ /\ S.giocatore_attivo \in a
           /\ Cardinality(agiti) = 2
           /\ \A p \in Seats : \/ S.puntata[p] = S.puntata_corrente
                               \/ S.foldato[p]
                               \/ S.all_in[p]

\* the loop reaches "invia your_turn" for the active seat
DeveAgire ==
    /\ pc = "giro"
    /\ ~GiroFinito(Stato, giocatori_agiti)
    /\ giocatore_attivo \in attivi_che_possono_agire(Stato)

\* "Salto i giocatori che hanno foldato o sono all-in"
SaltaGiocatore ==
    /\ pc = "giro"
    /\ ~GiroFinito(Stato, giocatori_agiti)
    /\ giocatore_attivo \notin attivi_che_possono_agire(Stato)
    /\ giocatore_attivo' = 1 - giocatore_attivo
    /\ inviati' = Niente
    /\ ultimo' = Ult("salta", giocatore_attivo, "", 0, "")
    /\ UNCHANGED << chips, puntata, foldato, all_in, mani_giocate, mani_vinte, piatto,
                    puntata_corrente, dealer_button, fase, mazzo, carte, carte_comuni,
                    giocatori_agiti, connesso,
                    remoto_aperto, pc, chips_inizio_mano, disconnessioni, rilanci, valutazione, buffer >>

MsgTurno == [type |-> "your_turn"]

MsgErrore(testo) == [type |-> "error", message |-> testo]

\* the tail of an accepted iteration: snapshot, then the turn passes
Avanza(S, p) == [S EXCEPT !.giocatore_attivo = 1 - p]

\* an iteration that stays in the loop
RestaNelGiro(S, agiti, out, u) ==
    /\ Imposta(S)
    /\ giocatori_agiti' = agiti
    /\ inviati' = out
    /\ pc' = "giro"
    /\ ultimo' = u
    /\ rilanci' = IF u.azione = "raise" /\ u.esito = "accettata" THEN rilanci + 1 ELSE rilanci
    /\ Ricevibile(buffer, u)
    /\ buffer' = Letto(buffer, u)
    /\ UNCHANGED << connesso, remoto_aperto, chips_inizio_mano, disconnessioni,
                    valutazione >>

\* ManoFinita as it would be if gioca_mano did not return when giro_puntate
\* returns False.
ManoFinita_prosegue(S, out, u) ==
    /\ Imposta(S)
    /\ giocatori_agiti' = {}
    /\ inviati' = out
    /\ pc' = "giro"
    /\ ultimo' = u
    /\ Ricevibile(buffer, u)
    /\ buffer' = Letto(buffer, u)
    /\ UNCHANGED << connesso, remoto_aperto, chips_inizio_mano, disconnessioni, rilanci, valutazione >>

\* giro_puntate returns False: gioca_mano returns, chiedi_continua is next
ManoFinita(S, out, u) ==
    /\ Imposta(S)
    /\ giocatori_agiti' = {}
    /\ inviati' = out
    /\ pc' = "continua"
    /\ ultimo' = u
    /\ Ricevibile(buffer, u)
    /\ buffer' = Letto(buffer, u)
    /\ UNCHANGED << connesso, remoto_aperto, chips_inizio_mano, disconnessioni, rilanci, valutazione >>

(***************************************************************************)
(* giro_puntate: one prompted iteration.  p is the active seat; the prompt *)
(* your_turn goes out first, then the answer (or its absence) is handled.  *)
(***************************************************************************)
Prompt(p) == invia_messaggio(connesso, p, MsgTurno)

\* the raise amounts a client is let to send: just below and at the minimum,
\* all but Resto chips, the whole stack, and more than the stack
Importi(S, p) ==
    { rilancio_minimo(S, p) - 1, rilancio_minimo(S, p),
      S.chips[p] - Resto, S.chips[p], S.chips[p] + 1 }

\* ricevi_messaggio raises TimeoutAzioneGiocatore
TurnoTimeout ==
    /\ DeveAgire
    /\ LET p == giocatore_attivo
           r == gestisci_fold_forzato(connesso, Stato, p, "timeout")
       IN  /\ remoto_aperto[p]
           /\ IF r.ritorno
              THEN ManoFinita(r.s, Cat(Prompt(p), r.out),
                              Ult("turno", p, "timeout", 0, "mano_finita"))
              ELSE RestaNelGiro(r.s, giocatori_agiti, Cat(Prompt(p), r.out),
                                Ult("turno", p, "timeout", 0, "continua"))

\* ricevi_messaggio finds the socket closed (recv returns b''):
\* ConnessioneGiocatorePersa, handled inside giro_puntate, which returns False
TurnoDisconnesso ==
    /\ DeveAgire
    /\ LET p == giocatore_attivo
           conn == [connesso EXCEPT ![p] = FALSE]
           d == gestisci_disconnessione(conn, Stato, p)
       IN  /\ ~remoto_aperto[p]
           /\ buffer[p] = << >>
           /\ connesso' = conn
           /\ Imposta(d.s)
           /\ inviati' = Cat(Prompt(p), d.out)
           /\ ultimo' = Ult("turno", p, "disconnesso", 0, "mano_finita")
    /\ disconnessioni' = disconnessioni + 1
    /\ giocatori_agiti' = {}
    /\ pc' = "continua"
    /\ UNCHANGED << remoto_aperto, chips_inizio_mano, rilanci, valutazione, buffer >>

\* the your_turn send itself raises on the closed socket
TurnoInvioFallito ==
    /\ DeveAgire
    /\ ~remoto_aperto[giocatore_attivo]
    /\ UNCHANGED chips_inizio_mano
    /\ ErroreGenerico(Stato, Niente, "turno", giocatore_attivo)

\* "if not dati_azione: continue" (an empty object, null, 0, ...)
TurnoVuoto ==
    /\ DeveAgire
    /\ remoto_aperto[giocatore_attivo]
    /\ RestaNelGiro(Stato, giocatori_agiti, Prompt(giocatore_attivo),
                    Ult("turno", giocatore_attivo, "vuoto", 0, "riprova"))

TurnoFold ==
    /\ DeveAgire
    /\ LET p == giocatore_attivo
           S1 == Fold(Stato, p)
           out1 == Cat(Cat(Prompt(p), broadcast(connesso, MsgAzione(p, "fold", 0))),
                       broadcast_stato_gioco(connesso, S1))
           giocatori_rimasti == NonFoldati(S1)
       IN  /\ remoto_aperto[p]
           /\ IF Cardinality(giocatori_rimasti) = 1
              THEN LET a == assegna_piatto(connesso, S1,
                                           CHOOSE q \in giocatori_rimasti : TRUE, "fold")
                   IN  ManoFinita(a.s, Cat(out1, a.out),
                                  Ult("turno", p, "fold", 0, "mano_finita"))
              ELSE RestaNelGiro(Avanza(S1, p), giocatori_agiti \cup {p},
                                Cat(out1, broadcast_stato_gioco(connesso, S1)),
                                Ult("turno", p, "fold", 0, "accettata"))

TurnoCheck ==
    /\ DeveAgire
    /\ LET p == giocatore_attivo
       IN  /\ remoto_aperto[p]
           /\ IF CheckRifiutato(Stato, p)
              THEN RestaNelGiro(Stato, giocatori_agiti,
                                Cat(Prompt(p), invia_messaggio(connesso, p,
                                                               MsgErrore("check"))),
                                Ult("turno", p, "check", 0, "errore"))
              ELSE RestaNelGiro(Avanza(Stato, p), giocatori_agiti \cup {p},
                                Cat(Cat(Prompt(p),
                                        broadcast(connesso, MsgAzione(p, "check", 0))),
                                    broadcast_stato_gioco(connesso, Stato)),
                                Ult("turno", p, "check", 0, "accettata"))

TurnoCall ==
    /\ DeveAgire
    /\ LET p == giocatore_attivo
           S1 == Call(Stato, p)
       IN  /\ remoto_aperto[p]
           /\ RestaNelGiro(Avanza(S1, p), giocatori_agiti \cup {p},
                           Cat(Cat(Prompt(p),
                                   broadcast(connesso,
                                             MsgAzione(p, "call", da_chiamare(Stato, p)))),
                               broadcast_stato_gioco(connesso, S1)),
                           Ult("turno", p, "call", da_chiamare(Stato, p), "accettata"))

\* an accepted raise is let through while fewer than limite have been
TurnoRaiseEntro(importo, limite) ==
    /\ DeveAgire
    /\ LET p == giocatore_attivo
           S1 == Raise(Stato, p, importo)
           testo_azione == IF S1.chips[p] = 0 THEN "all-in" ELSE "raise"
       IN  /\ remoto_aperto[p]
           /\ importo \in Importi(Stato, p)
           /\ RaiseRifiutato(Stato, p, importo) \/ rilanci < limite
           /\ IF RaiseRifiutato(Stato, p, importo)
              THEN RestaNelGiro(Stato, giocatori_agiti,
                                Cat(Prompt(p), invia_messaggio(connesso, p,
                                                               MsgErrore("raise"))),
                                Ult("turno", p, "raise", importo, "errore"))
              ELSE RestaNelGiro(Avanza(S1, p), {p},
                                Cat(Cat(Prompt(p),
                                        broadcast(connesso,
                                                  MsgAzione(p, testo_azione,
                                                            ImportoRaise(Stato, p, importo)))),
                                    broadcast_stato_gioco(connesso, S1)),
                                Ult("turno", p, "raise", importo, "accettata"))

TurnoRaise(importo) == TurnoRaiseEntro(importo, MaxRilanci)

\* an action that is none of fold/check/call/raise matches no branch of the
\* if/elif chain and falls through to the tail of the iteration
TurnoAltro ==
    /\ DeveAgire
    /\ LET p == giocatore_attivo
       IN  /\ remoto_aperto[p]
           /\ RestaNelGiro(Avanza(Stato, p), giocatori_agiti \cup {p},
                           Cat(Prompt(p), broadcast_stato_gioco(connesso, Stato)),
                           Ult("turno", p, "altro", 0, "accettata"))

\* after an accepted action the broadcast to the other, closed, peer raises:
\* the action's effect on the state stays, nothing after it happens
TurnoBroadcastFallito(azione, importo) ==
    /\ DeveAgire
    /\ LET p == giocatore_attivo
           q == 1 - p
           S1 == CASE azione = "fold" -> Fold(Stato, p)
                   [] azione = "call" -> Call(Stato, p)
                   [] azione = "raise" -> Raise(Stato, p, importo)
                   [] azione = "timeout" ->
                        [Stato EXCEPT !.foldato[p] = TRUE, !.all_in[p] = FALSE]
                   [] OTHER -> Stato
           m == CASE azione = "timeout" -> << MsgAzione(p, "forced_fold", 0) >>
                  [] azione = "altro" -> << >>
                  [] OTHER -> << MsgAzione(p, azione, importo) >>
       IN  /\ remoto_aperto[p]
           /\ ~remoto_aperto[q]
           /\ azione \in {"fold", "check", "call", "raise", "altro", "timeout"}
           /\ azione = "check" => ~CheckRifiutato(Stato, p)
           /\ IF azione = "raise"
              THEN /\ importo \in Importi(Stato, p)
                   /\ ~RaiseRifiutato(Stato, p, importo)
                   /\ rilanci < MaxRilanci
              ELSE importo = 0
           /\ UNCHANGED chips_inizio_mano
           /\ ErroreGenerico(S1, [s \in Seats |-> IF s = p
                                                  THEN << MsgTurno >> \o (IF p < q THEN m ELSE << >>)
                                                  ELSE << >>],
                             "turno", q)

(***************************************************************************)
(* gioca_mano: giro_puntate has returned True                              *)
(***************************************************************************)
FaseSuccessiva(f) ==
    CASE f = "pre_flop" -> "flop"
      [] f = "flop" -> "turn"
      [] f = "turn" -> "river"
      [] OTHER -> f

MsgFase(f) == [type |-> "phase_change", phase |-> f]

\* InizioGiro as it would be if the dealer spoke first after the flop too.
InizioGiro_dal_dealer(S) ==
    [S EXCEPT !.puntata = [p \in Seats |-> 0],
              !.puntata_corrente = 0,
              !.giocatore_attivo = S.dealer_button]

\* the reset at the entry of a post-flop giro_puntate
InizioGiro(S) ==
    [S EXCEPT !.puntata = [p \in Seats |-> 0],
              !.puntata_corrente = 0,
              !.giocatore_attivo = 1 - S.dealer_button]

\* "carte_comuni = mazzo.deal(3)" for the flop, "carte_comuni.extend(mazzo.deal(1))"
\* for the turn and for the river, and the new phase
RivelaCarte(S) ==
    LET d == deal(S.mazzo, IF S.fase = "pre_flop" THEN 3 ELSE 1)
    IN  [S EXCEPT !.carte_comuni = IF S.fase = "pre_flop" THEN d.dealt_cards
                                   ELSE @ \o d.dealt_cards,
                  !.mazzo = d.cards,
                  !.fase = FaseSuccessiva(S.fase)]

\* reveal the next community cards, announce them, enter the next round
ProssimaFase ==
    /\ pc = "giro"
    /\ GiroFinito(Stato, giocatori_agiti)
    /\ fase \in {"pre_flop", "flop", "turn"}
    /\ LET S1 == RivelaCarte(Stato)
       IN  /\ Imposta(InizioGiro(S1))
           /\ inviati' = Cat(broadcast(connesso, MsgFase(S1.fase)),
                             broadcast_stato_gioco(connesso, S1))
    /\ giocatori_agiti' = {}
    /\ pc' = "giro"
    /\ ultimo' = Ult("prossima_fase", -1, "", 0, "ok")
    /\ UNCHANGED << connesso, remoto_aperto, chips_inizio_mano, disconnessioni, rilanci, valutazione, buffer >>

ProssimaFaseInvioFallito(q) ==
    /\ pc = "giro"
    /\ GiroFinito(Stato, giocatori_agiti)
    /\ fase \in {"pre_flop", "flop", "turn"}
    /\ ~remoto_aperto[q]
    /\ UNCHANGED chips_inizio_mano
    /\ LET S1 == RivelaCarte(Stato)
       IN  ErroreGenerico(S1, Prima(connesso, q, MsgFase(S1.fase)), "prossima_fase", q)

\* showdown, from "mani = {}" on
showdown(conn, S) ==
    LET mani == NonFoldati(S)
        ids_giocatori == sorted_reverse_set(mani)
        primo == ids_giocatori[Len(ids_giocatori)]
        secondo == ids_giocatori[1]
        risultato == compare_hands(S.carte[primo] \o S.carte_comuni,
                                   S.carte[secondo] \o S.carte_comuni)
    IN  IF Cardinality(mani) = 1
        THEN assegna_piatto(conn, S, primo, "showdown") @@ [risultato |-> 0]
        ELSE IF risultato > 0
             THEN assegna_piatto(conn, S, primo, "showdown") @@ [risultato |-> risultato]
        ELSE IF risultato < 0
             THEN assegna_piatto(conn, S, secondo, "showdown") @@ [risultato |-> risultato]
        ELSE dividi_piatto(conn, S, mani) @@ [risultato |-> risultato]

Showdown ==
    /\ pc = "giro"
    /\ GiroFinito(Stato, giocatori_agiti)
    /\ fase = "river"
    /\ LET r == showdown(connesso, Stato)
       IN  ManoFinita(r.s, r.out, Ult("showdown", -1, "", r.risultato, "mano_finita"))

\* the hand_result broadcast raises at the closed peer q: the chips are
\* credited, the pot is not yet reset
ShowdownInvioFallito(q) ==
    /\ pc = "giro"
    /\ GiroFinito(Stato, giocatori_agiti)
    /\ fase = "river"
    /\ ~remoto_aperto[q]
    /\ UNCHANGED chips_inizio_mano
    /\ LET r == showdown(connesso, Stato)
       IN  ErroreGenerico(r.parziale,
                          [s \in Seats |-> IF s < q THEN << r.out[s][1] >> ELSE << >>],
                          "showdown", q)

(***************************************************************************)
(* chiedi_continua and the rest of the match loop                          *)
(***************************************************************************)
\* what a seat has sent by the time its answer is read: JSON true, JSON
\* false, the string "no", an object without the key, or nothing in 30 s
Risposte == {"true", "false", "stringa_no", "assente", "timeout"}

\* Accetta as it would be with dati.get('continue', True).
AccettaAssente(r) == r \in {"true", "stringa_no", "assente"}

\* bool(dati.get('continue', False)), and False on timeout
Accetta(r) == r \in {"true", "stringa_no"}

MsgContinua == [type |-> "ask_continue"]

MsgGameOver(v) == [type |-> "game_over", winner |-> v, motivo |-> "chips"]

\* SenzaChips as it would be with "< 0" for "<= 0".
SenzaChipsStretto(S) == {p \in Seats : S.chips[p] < 0}

\* SenzaChips as it would be if the match loop never tested the stacks.
SenzaChipsMaiProvato(S) == {p \in Seats : FALSE}

\* "for id_giocatore, giocatore in ...: if giocatore['chips'] <= 0"
SenzaChips(S) == {p \in Seats : S.chips[p] <= 0}

ChiediContinua(r0, r1) ==
    /\ pc = "continua"
    /\ \A p \in Seats : connesso[p] /\ remoto_aperto[p]
    /\ r0 \in Risposte
    /\ r1 \in Risposte
    /\ LET tutti == Accetta(r0) /\ Accetta(r1)
           perdente == CHOOSE p \in SenzaChips(Stato) :
                           \A q \in SenzaChips(Stato) : p <= q
       IN  /\ inviati' = IF tutti /\ SenzaChips(Stato) # {}
                         THEN Cat(broadcast(connesso, MsgContinua),
                                  broadcast(connesso, MsgGameOver(1 - perdente)))
                         ELSE broadcast(connesso, MsgContinua)
           /\ pc' = IF tutti /\ SenzaChips(Stato) = {} THEN "nuova_mano" ELSE "fine"
           /\ ultimo' = [ op |-> "chiedi_continua", id |-> -1, azione |-> "",
                          importo |-> 0,
                          esito |-> IF ~tutti THEN "rifiuto"
                                    ELSE IF SenzaChips(Stato) # {} THEN "game_over"
                                    ELSE "nuova_mano",
                          risposte |-> << r0, r1 >> ]
    /\ \A p \in Seats :
          buffer[p] # << >> => << r0, r1 >>[p + 1] = ComeRisposta(Head(buffer[p]))
    /\ buffer' = [p \in Seats |-> IF buffer[p] = << >> THEN << >> ELSE Tail(buffer[p])]
    /\ UNCHANGED << gioco, giocatori_agiti, connesso, remoto_aperto, chips_inizio_mano,
                    disconnessioni, rilanci, valutazione >>

\* the first seat, in the order of the loop, whose receive raises
\* ConnessioneGiocatorePersa (already marked disconnected, or socket closed)
PrimoPerso == CHOOSE p \in Seats :
                  /\ ~connesso[p] \/ ~remoto_aperto[p]
                  /\ \A q \in Seats : (~connesso[q] \/ ~remoto_aperto[q]) => p <= q

\* the exception leaves chiedi_continua and reaches inizia_partita, which
\* calls gestisci_disconnessione.  When seat 1 is the lost one, seat 0's
\* answer has been waited for first, and is dropped.
ChiediContinuaDisconnesso ==
    /\ pc = "continua"
    /\ \E p \in Seats : ~connesso[p] \/ ~remoto_aperto[p]
    /\ LET p == PrimoPerso
           conn == [connesso EXCEPT ![p] = FALSE]
           d == gestisci_disconnessione(conn, Stato, p)
       IN  /\ connesso' = conn
           /\ Imposta(d.s)
           /\ inviati' = Cat(broadcast(connesso, MsgContinua), d.out)
           /\ ultimo' = [ op |-> "chiedi_continua", id |-> p, azione |-> "",
                          importo |-> 0, esito |-> "disconnesso",
                          attesi |-> {q \in Seats : q < p} ]
    /\ disconnessioni' = disconnessioni + 1
    /\ pc' = "fine"
    /\ UNCHANGED << giocatori_agiti, remoto_aperto, chips_inizio_mano, rilanci, valutazione, buffer >>

\* the ask_continue broadcast raises at the closed peer q
ChiediContinuaInvioFallito(q) ==
    /\ pc = "continua"
    /\ connesso[q]
    /\ ~remoto_aperto[q]
    /\ UNCHANGED chips_inizio_mano
    /\ ErroreGenerico(Stato, Prima(connesso, q, MsgContinua), "chiedi_continua", q)

(***************************************************************************)
(* The specification                                                       *)
(***************************************************************************)
Next ==
    \/ \E p \in Seats : ChiusuraRemota(p)
    \/ \E m \in Mescolate : NuovaMano(m)
    \/ \E q \in Seats : \E m \in Mescolate : NuovaManoInvioFallito(q, m)
    \/ SaltaGiocatore
    \/ TurnoTimeout
    \/ TurnoDisconnesso
    \/ TurnoInvioFallito
    \/ TurnoVuoto
    \/ TurnoFold
    \/ TurnoCheck
    \/ TurnoCall
    \/ \E importo \in Importi(Stato, giocatore_attivo) : TurnoRaise(importo)
    \/ TurnoAltro
    \/ \E azione \in {"fold", "check", "call", "raise", "altro", "timeout"} :
         \E importo \in Importi(Stato, giocatore_attivo) \cup {0} :
            TurnoBroadcastFallito(azione, importo)
    \/ ProssimaFase
    \/ \E q \in Seats : ProssimaFaseInvioFallito(q)
    \/ Showdown
    \/ \E q \in Seats : ShowdownInvioFallito(q)
    \/ \E r0, r1 \in Risposte : ChiediContinua(r0, r1)
    \/ ChiediContinuaDisconnesso
    \/ \E q \in Seats : ChiediContinuaInvioFallito(q)

Spec == Init /\ [][Next]_vars

(***************************************************************************)
(* gestisci_fold_forzato called on any seat: the timeout branch of         *)
(* giro_puntate with the seat left free, also right after a hand has ended *)
(***************************************************************************)
ChiamaFoldForzato(p) ==
    /\ pc \in {"giro", "continua"}
    /\ LET r == gestisci_fold_forzato(connesso, Stato, p, "timeout")
       IN  /\ Imposta(r.s)
           /\ inviati' = r.out
           /\ pc' = IF r.ritorno THEN "continua" ELSE pc
           /\ giocatori_agiti' = IF r.ritorno THEN {} ELSE giocatori_agiti
           /\ ultimo' = Ult("fold_forzato", p,
                            IF foldato[p] THEN "gia_foldato" ELSE "primo", 0,
                            IF r.ritorno THEN "true" ELSE "false")
    /\ UNCHANGED << connesso, remoto_aperto, chips_inizio_mano, disconnessioni, rilanci, valutazione, buffer >>

\* the calls are tried throughout the first hand of a match
NextFoldForzato ==
    \/ Next /\ mani_giocate'[0] <= 1
    \/ \E p \in Seats : ChiamaFoldForzato(p)

SpecFoldForzato == Init /\ [][NextFoldForzato]_vars

(***************************************************************************)
(* One hand played quietly (checks and calls) to the showdown, on every    *)
(* shuffle of the family MescolateAffini                                   *)
(***************************************************************************)
NextMazzo ==
    \/ \E m \in MescolateAffini : NuovaMano(m)
    \/ TurnoCheck
    \/ TurnoCall
    \/ ProssimaFase
    \/ Showdown

SpecMazzo == Init /\ [][NextMazzo]_vars

(***************************************************************************)
(* A match in which no client closes its socket, lets a turn time out or   *)
(* sends anything but fold, check, call and raise, and both always answer  *)
(* "continue": the hands follow one another, with up to MaxRilanciSereni   *)
(* raises accepted in the match.                                           *)
(***************************************************************************)
MaxRilanciSereni == 2

NextSereno ==
    \/ \E m \in Mescolate : NuovaMano(m)
    \/ TurnoFold
    \/ TurnoCheck
    \/ TurnoCall
    \/ \E importo \in Importi(Stato, giocatore_attivo) :
          TurnoRaiseEntro(importo, MaxRilanciSereni)
    \/ ProssimaFase
    \/ Showdown
    \/ ChiediContinua("true", "true")

SpecSereno == Init /\ [][NextSereno]_vars

\* the prompted seat's answer is handled: one iteration of giro_puntate
TurnoSereno ==
    \/ TurnoFold
    \/ TurnoCheck
    \/ TurnoCall
    \/ \E importo \in Importi(Stato, giocatore_attivo) :
          TurnoRaiseEntro(importo, MaxRilanciSereni)

\* Every receive returns within its timeout, so the iteration of a seat that
\* has been prompted is always completed.
SpecSerenoEquo == Init /\ [][NextSereno]_vars /\ WF_vars(TurnoSereno)

(***************************************************************************)
(* The clients write when they like.  A client's send_action and           *)
(* ask_continue put a line on the socket whether or not the server is      *)
(* waiting for it: the action buttons stay enabled after the turn timer    *)
(* has run out, and the server accepts any peer.  No fault otherwise.      *)
(***************************************************************************)
MaxCoda == 1

\* {'action': ...} of send_action and {'continue': ...} of ask_continue
MessaggiCliente ==
    {[tipo |-> "azione", azione |-> a, importo |-> 0, valore |-> FALSE] :
        a \in {"fold", "call"}}
    \cup {[tipo |-> "continua", azione |-> "", importo |-> 0, valore |-> v] :
            v \in BOOLEAN}

\* seat p's client writes m while the server is not waiting for p: after its
\* turn has timed out, during the other seat's turn, between hands
ClienteInvia(p, m) ==
    /\ pc # "fine"
    /\ remoto_aperto[p]
    /\ Len(buffer[0]) + Len(buffer[1]) < MaxCoda
    /\ buffer' = [buffer EXCEPT ![p] = Append(@, m)]
    /\ UNCHANGED << gioco, giocatori_agiti, connesso, remoto_aperto, pc, inviati, ultimo,
                    chips_inizio_mano, disconnessioni, rilanci, valutazione >>

NextCanale ==
    \/ \E p \in Seats : \E m \in MessaggiCliente : ClienteInvia(p, m)
    \/ \E m \in Mescolate : NuovaMano(m)
    \/ TurnoTimeout
    \/ TurnoVuoto
    \/ TurnoFold
    \/ TurnoCheck
    \/ TurnoCall
    \/ TurnoAltro
    \/ ProssimaFase
    \/ Showdown
    \/ \E r0, r1 \in Risposte : ChiediContinua(r0, r1)

SpecCanale == Init /\ [][NextCanale]_vars

(***************************************************************************)
(* The hand evaluator called on its own.  evaluate_hand and compare_hands  *)
(* are module-level functions of poker_game.py: valutazione holds the      *)
(* arguments and the result of the last call.                              *)
(***************************************************************************)
\* every variable but valutazione
tavolo == << gioco, giocatori_agiti, connesso, remoto_aperto, pc, inviati, ultimo,
             chips_inizio_mano, disconnessioni, rilanci, buffer >>

\* the cards of S as a list, lowest position of Deck.reset first
InOrdine(S) == Reverse(sorted_reverse_set(S))

\* The cards the five-card inputs are cut from: spades 2-6 and 10-A, hearts
\* 2, 3, 6, A, and the two other twos.
MazzoDiProva ==
    {Card(v, 0) : v \in {2, 3, 4, 5, 6, 10, 11, 12, 13, 14}}
        \cup {Card(v, 1) : v \in {2, 3, 6, 14}} \cup {Card(2, 2), Card(2, 3)}

\* every hand of five cards of MazzoDiProva
ManiDiProva == {InOrdine(S) : S \in {T \in SUBSET MazzoDiProva : Cardinality(T) = 5}}

\* The hands a hand is compared with: the best and the worst of the
\* categories, over the whole deck.
Campioni ==
    { << Card(14, 0), Card(13, 1), Card(12, 0), Card(11, 0), Card(9, 0) >>,
      << Card(7, 1), Card(5, 0), Card(4, 0), Card(3, 0), Card(2, 0) >>,
      << Card(2, 0), Card(2, 1), Card(3, 0), Card(4, 0), Card(5, 1) >>,
      << Card(14, 0), Card(14, 1), Card(13, 0), Card(12, 0), Card(11, 1) >>,
      << Card(2, 0), Card(2, 1), Card(3, 0), Card(3, 1), Card(4, 1) >>,
      << Card(14, 0), Card(14, 1), Card(13, 0), Card(13, 1), Card(12, 1) >>,
      << Card(2, 0), Card(2, 1), Card(2, 2), Card(3, 0), Card(4, 1) >>,
      << Card(14, 0), Card(14, 1), Card(14, 2), Card(13, 0), Card(12, 1) >>,
      << Card(14, 1), Card(2, 0), Card(3, 0), Card(4, 0), Card(5, 0) >>,
      << Card(2, 1), Card(3, 0), Card(4, 0), Card(5, 0), Card(6, 0) >>,
      << Card(10, 1), Card(11, 0), Card(12, 0), Card(13, 0), Card(14, 0) >>,
      << Card(2, 2), Card(3, 2), Card(4, 2), Card(5, 2), Card(7, 2) >>,
      << Card(14, 2), Card(13, 2), Card(12, 2), Card(11, 2), Card(9, 2) >>,
      << Card(2, 0), Card(2, 1), Card(2, 2), Card(3, 0), Card(3, 1) >>,
      << Card(14, 0), Card(14, 1), Card(14, 2), Card(13, 0), Card(13, 1) >>,
      << Card(2, 0), Card(2, 1), Card(2, 2), Card(2, 3), Card(3, 1) >>,
      << Card(14, 0), Card(14, 1), Card(14, 2), Card(14, 3), Card(13, 1) >>,
      << Card(14, 3), Card(2, 3), Card(3, 3), Card(4, 3), Card(5, 3) >>,
      << Card(9, 3), Card(10, 3), Card(11, 3), Card(12, 3), Card(13, 3) >>,
      << Card(10, 3), Card(11, 3), Card(12, 3), Card(13, 3), Card(14, 3) >> }

\* Hands of seven cards: three pairs and a king; a board A-K-Q-J-9 with 2-3
\* in the hole; six spades and a heart.
ManiDiSette ==
    { << Card(14, 0), Card(14, 1), Card(3, 0), Card(3, 1), Card(5, 2), Card(5, 3),
         Card(13, 0) >>,
      << Card(2, 3), Card(3, 2), Card(14, 0), Card(13, 1), Card(12, 0), Card(11, 0),
         Card(9, 0) >> }

\* The inputs whose order is changed: the hands of Campioni, and the first
\* five, six and seven cards of the hands of ManiDiSette.
ManiPermutate == Campioni \cup {SubSeq(h, 1, n) : h \in ManiDiSette, n \in 5..7}

Ingresso(h) == [NessunaValutazione EXCEPT !.op = "ingresso", !.cards = h]

InitValuta ==
    /\ StatoIniziale
    /\ valutazione \in {Ingresso(h) : h \in ManiDiProva}

InitPermuta ==
    /\ StatoIniziale
    /\ valutazione \in {Ingresso(h) : h \in ManiPermutate}

\* a call evaluate_hand(cards): a key comes back, or the exception
ValutaMano ==
    /\ valutazione.op \in {"ingresso", "permutata"}
    /\ LET k == evaluate_hand(valutazione.cards)
       IN  valutazione' = IF k = ValueError
                          THEN [valutazione EXCEPT !.op = "ValueError"]
                          ELSE [valutazione EXCEPT !.op = "evaluate_hand", !.chiave = k]
    /\ UNCHANGED tavolo

\* a call compare_hands(cards, h2)
ConfrontaMani(h2) ==
    /\ valutazione.op = "evaluate_hand"
    /\ valutazione' = [valutazione EXCEPT !.op = "compare_hands",
                                          !.altra = h2,
                                          !.confronto = compare_hands(valutazione.cards, h2)]
    /\ UNCHANGED tavolo

\* the caller exchanges the cards at positions i and i + 1 of the list; chiave
\* stays what it was for the list before
PermutaCarte(i) ==
    /\ valutazione.op = "evaluate_hand"
    /\ i \in 1..(Len(valutazione.cards) - 1)
    /\ valutazione' =
          [valutazione EXCEPT !.op = "permutata",
                              !.cards = [@ EXCEPT ![i] = valutazione.cards[i + 1],
                                                  ![i + 1] = valutazione.cards[i]]]
    /\ UNCHANGED tavolo

\* The cards the inputs of any length are cut from: spades A-6, hearts A, K,
\* 2, 3, and the two other twos.
MazzoCorto ==
    {Card(v, 0) : v \in {14, 2, 3, 4, 5, 6}} \cup {Card(v, 1) : v \in {14, 13, 2, 3}}
        \cup {Card(2, 2), Card(2, 3)}

\* every list of up to 7 cards of MazzoCorto
ManiDiOgniLunghezza ==
    {InOrdine(S) : S \in {T \in SUBSET MazzoCorto : Cardinality(T) <= 7}}

InitLunghezze ==
    /\ StatoIniziale
    /\ valutazione \in {Ingresso(h) : h \in ManiDiOgniLunghezza}

NextLunghezze == ValutaMano

SpecLunghezze == InitLunghezze /\ [][NextLunghezze]_vars

NextValuta ==
    \/ ValutaMano
    \/ \E h2 \in Campioni : ConfrontaMani(h2)

SpecValuta == InitValuta /\ [][NextValuta]_vars

NextPermuta ==
    \/ ValutaMano
    \/ \E i \in 1..6 : PermutaCarte(i)

SpecPermuta == InitPermuta /\ [][NextPermuta]_vars

(***************************************************************************)
(* Properties                                                              *)
(***************************************************************************)
\* what seat p has moved from its stack since the hand was started
Contribuito(p) == chips_inizio_mano[p] - chips[p]

\* the step is a prompted iteration of giro_puntate that ran to its end
PassoTurno(azione) ==
    /\ pc = "giro"
    /\ ultimo'.op = "turno"
    /\ ultimo'.azione = azione
    /\ ultimo'.id = giocatore_attivo

\* the prompted seat got your_turn and then an error, nobody else got anything,
\* and the game is exactly where it was, the same seat to be prompted again
RifiutatoConErrore(p) ==
    /\ UNCHANGED << gioco, giocatori_agiti, pc >>
    /\ inviati'[p] = << MsgTurno, MsgErrore(ultimo'.azione) >>
    /\ inviati'[1 - p] = << >>

HaMessaggio(seq, t) == \E i \in 1..Len(seq) : seq[i].type = t

\* C1: while a hand is being played (after the blinds, before the pot is
\* awarded) the pot equals the chips both seats have moved out of their
\* stacks since the hand started.
C1_PiattoConservato ==
    pc = "giro" => piatto = Contribuito(0) + Contribuito(1)

C1_Testimone ==
    /\ pc = "giro"
    /\ fase = "turn"
    /\ ultimo.azione = "call"
    /\ piatto > puntata[0] + puntata[1]
    /\ puntata[0] + puntata[1] > 0

\* C2: no seat's chip stack is ever negative.
C2_ChipsNonNegativi == \A p \in Seats : chips[p] >= 0

\* a raise for more than the raiser's stack was accepted: the stack is at 0 and
\* the amount announced to the table is less than the amount asked for
C2_Testimone ==
    /\ ultimo.azione = "raise"
    /\ ultimo.esito = "accettata"
    /\ chips[ultimo.id] = 0
    /\ \E i \in 1..Len(inviati[ultimo.id]) :
          /\ inviati[ultimo.id][i].type = "player_action"
          /\ inviati[ultimo.id][i].amount < ultimo.importo

C4_Originale ==
    [][ \A p \in Seats :
          ( \/ PassoTurno("check") /\ p = giocatore_attivo
                                   /\ puntata_corrente - puntata[p] > 0
            \/ PassoTurno("raise") /\ p = giocatore_attivo
                                   /\ RaiseRifiutato(Stato, p, ultimo'.importo)
            \/ PassoTurno("altro") /\ p = giocatore_attivo
            \/ PassoTurno("vuoto") /\ p = giocatore_attivo )
          => ( /\ UNCHANGED << gioco, giocatori_agiti, pc >>
               /\ HaMessaggio(inviati'[p], "error")
               /\ ~HaMessaggio(inviati'[1 - p], "error") ) ]_vars

\* C5: a turn timeout folds the prompted seat, gives the whole pot to the other
\* seat, reports reason "timeout" and not "fold", sends no game_over, and
\* leaves the server about to ask "continue?", as a voluntary fold does.
C5_Timeout ==
    [][ /\ PassoTurno("timeout")
           => LET p == giocatore_attivo
                  q == 1 - giocatore_attivo
              IN  /\ foldato'[p]
                  /\ chips'[q] = chips[q] + piatto
                  /\ chips'[p] = chips[p]
                  /\ piatto' = 0
                  /\ pc' = "continua"
                  /\ \A s \in Seats :
                       /\ \E i \in 1..Len(inviati'[s]) :
                            /\ inviati'[s][i].type = "hand_result"
                            /\ inviati'[s][i].reason = "timeout"
                            /\ inviati'[s][i].winner_id = q
                       /\ \A i \in 1..Len(inviati'[s]) :
                            /\ inviati'[s][i].type # "game_over"
                            /\ inviati'[s][i].type = "hand_result"
                                 => inviati'[s][i].reason # "fold"
        /\ PassoTurno("fold") => pc' = "continua" ]_vars

C5_Testimone ==
    /\ ultimo.azione = "timeout"
    /\ ultimo.esito = "mano_finita"
    /\ pc = "continua"
    /\ foldato[ultimo.id]
    /\ chips[1 - ultimo.id] > chips_inizio_mano[1 - ultimo.id]

\* C6: gestisci_fold_forzato on a seat that is not folded marks it folded and,
\* the other seat being in the hand, awards it the pot and reports the hand
\* ended; on a seat already folded it reports "not ended" and changes nothing
\* and sends nothing.
C6_FoldForzatoIdempotente ==
    [][ ultimo'.op = "fold_forzato"
        => LET p == ultimo'.id
               q == 1 - ultimo'.id
           IN  IF foldato[p]
               THEN /\ ultimo'.esito = "false"
                    /\ UNCHANGED << gioco, giocatori_agiti, pc >>
                    /\ inviati' = Niente
               ELSE /\ foldato'[p]
                    /\ foldato'[q] = foldato[q]
                    /\ ~foldato[q] => /\ ultimo'.esito = "true"
                                      /\ chips'[q] = chips[q] + piatto
                                      /\ mani_vinte'[q] = mani_vinte[q] + 1
                                      /\ piatto' = 0 ]_vars

\* a second call on the seat that a first call has folded
C6_Testimone ==
    /\ ultimo.op = "fold_forzato"
    /\ ultimo.azione = "gia_foldato"
    /\ foldato[ultimo.id]
    /\ mani_vinte[1 - ultimo.id] = 1
    /\ mani_giocate[0] = 1

\* C7 as claimed: a seat found closed while its action is awaited, with chips
\* in the pot, gives the pot to the other seat, sends it game_over, and from
\* then on the server prompts nobody (no your_turn, no ask_continue).
C7_Originale ==
    [][ /\ (PassoTurno("disconnesso") /\ piatto > 0)
           => LET q == 1 - giocatore_attivo
              IN  /\ chips'[q] = chips[q] + piatto
                  /\ piatto' = 0
                  /\ HaMessaggio(inviati'[q], "game_over")
        /\ disconnessioni > 0
           => \A s \in Seats : /\ ~HaMessaggio(inviati'[s], "your_turn")
                               /\ ~HaMessaggio(inviati'[s], "ask_continue") ]_vars

\* C8 as claimed: however the loss of a seat is noticed (a send that raises, a
\* receive that finds the socket closed), gestisci_disconnessione has run, no
\* pot is left, and the other seat has been told game_over.
C8_Originale ==
    (ultimo.esito \in {"invio_fallito", "disconnesso"} \/ ultimo.azione = "disconnesso")
        => /\ disconnessioni > 0
           /\ piatto = 0
           /\ connesso[1 - ultimo.id] => HaMessaggio(inviati[1 - ultimo.id], "game_over")

\* chiedi_continua ran with both seats connected
PassoContinua ==
    /\ pc = "continua"
    /\ ultimo'.op = "chiedi_continua"
    /\ ultimo'.esito \in {"rifiuto", "game_over", "nuova_mano"}

C10_Originale ==
    [][ PassoContinua
        => /\ pc' = "nuova_mano"
                => /\ \A i \in 1..2 : ultimo'.risposte[i] = "true"
                   /\ \A p \in Seats : chips[p] > 0
           /\ (\E i \in 1..2 : ultimo'.risposte[i] # "true") => pc' = "fine" ]_vars

\* C10 as amended: a new hand follows exactly when both seats answered with a
\* truthy continue value (true, but also a non-empty string such as "no")
\* and both have chips; a seat that does not answer in time, or whose answer
\* has no continue key or a falsy one, declines, and the match loop stops.
C10_Continua ==
    [][ PassoContinua
        => /\ pc' = "nuova_mano"
                <=> /\ \A i \in 1..2 : ultimo'.risposte[i] \in {"true", "stringa_no"}
                    /\ \A p \in Seats : chips[p] > 0
           /\ (\E i \in 1..2 : ultimo'.risposte[i] \in {"false", "assente", "timeout"})
                => pc' = "fine"
           /\ pc' \in {"nuova_mano", "fine"} ]_vars

\* a second hand is about to start after a timeout-free pair of answers
C10_Testimone ==
    /\ ultimo.op = "chiedi_continua"
    /\ ultimo.esito = "nuova_mano"
    /\ pc = "nuova_mano"
    /\ mani_giocate[0] = 1

\* the messages of type t in seq, in order
Messaggi(seq, t) == SelectSeq(seq, LAMBDA m : m.type = t)

\* C11 as claimed: every game_state sent reports as active player a seat that
\* is neither folded nor all-in.
C11_Originale ==
    \A s \in Seats : \A i \in 1..Len(inviati[s]) :
        LET m == inviati[s][i]
        IN  m.type = "game_state" =>
                ~m.folded[m.active_player] /\ ~m.all_in[m.active_player]

\* the step is gioca_mano going on after a giro_puntate that returned True
GiroRitornaTrue ==
    /\ pc = "giro"
    /\ ultimo'.op \in {"prossima_fase", "showdown"}

\* C12: a betting round returns "continue" only when exactly one seat that can
\* act is left and it has nothing to call, or no such seat is left, or both
\* seats have acted since the last raise and every non-folded contribution
\* equals the current bet; never while a seat that can act has contributed
\* less than the current bet.
C12_FineGiro ==
    [][ GiroRitornaTrue =>
            LET a == attivi_che_possono_agire(Stato)
            IN  /\ \/ Cardinality(a) = 1 /\ \A p \in a : puntata[p] >= puntata_corrente
                   \/ a = {}
                   \/ /\ giocatori_agiti = Seats
                      /\ \A p \in NonFoldati(Stato) : puntata[p] = puntata_corrente
                /\ \A p \in a : puntata[p] >= puntata_corrente ]_vars

\* a round has ended with one seat all-in and the other one, who can act, level
C12_Testimone ==
    /\ ultimo.op = "prossima_fase"
    /\ ultimo.esito = "ok"
    /\ \E p \in Seats : all_in[p] /\ ~all_in[1 - p] /\ ~foldato[1 - p]

\* C13: the phase of a hand moves only pre-flop -> flop -> turn -> river, one
\* step of gioca_mano at a time, and the showdown is run only after the river
\* round; once a seat is folded or the hand has been reported over, no
\* community card is revealed, no seat is prompted and no showdown is run
\* until the next hand is started.
C13_OrdineFasi ==
    [][ /\ fase' # fase =>
              \/ ultimo'.op = "nuova_mano" /\ fase' = "pre_flop"
              \/ /\ ultimo'.op = "prossima_fase"
                 /\ pc = "giro"
                 /\ << fase, fase' >> \in { << "pre_flop", "flop" >>, << "flop", "turn" >>,
                                           << "turn", "river" >> }
        /\ ultimo'.op = "showdown" => pc = "giro" /\ fase = "river" /\ Len(carte_comuni) = 5
        /\ ultimo'.op = "turno" /\ ultimo'.esito = "mano_finita" =>
              carte_comuni' = carte_comuni /\ fase' = fase /\ pc' = "continua"
        /\ (pc # "giro" \/ \E p \in Seats : foldato[p]) /\ ultimo'.op # "nuova_mano" =>
              /\ carte_comuni' = carte_comuni
              /\ fase' = fase
              /\ ultimo'.op \notin {"turno", "prossima_fase", "showdown"}
              /\ \A s \in Seats : Messaggi(inviati'[s], "your_turn") = << >> ]_vars

\* a hand went through the four rounds to the showdown
C13_Testimone ==
    /\ ultimo.op = "showdown"
    /\ fase = "river"
    /\ Len(carte_comuni) = 5
    /\ pc = "continua"

\* C14: right after nuova_mano each seat has posted min(blind, stack), the
\* dealer the small blind and the other seat the big blind; when both hold
\* their blind the pot is small + big blind, the current bet is the big blind
\* and the dealer is the active seat.
C14_Blind ==
    ultimo.op = "nuova_mano" /\ ultimo.esito = "ok" =>
        LET d == dealer_button
            o == 1 - dealer_button
            c == chips_inizio_mano
        IN  /\ puntata[d] = Min(piccolo_blind, c[d])
            /\ chips[d] = c[d] - puntata[d]
            /\ puntata[o] = Min(grande_blind, c[o])
            /\ chips[o] = c[o] - puntata[o]
            /\ c[d] >= piccolo_blind /\ c[o] >= grande_blind =>
                  /\ puntata[d] = piccolo_blind
                  /\ puntata[o] = grande_blind
                  /\ piatto = piccolo_blind + grande_blind
                  /\ puntata_corrente = grande_blind
                  /\ giocatore_attivo = d
            /\ c = [p \in Seats |-> chips_iniziali] =>
                  /\ chips[d] = 995 /\ puntata[d] = 5
                  /\ chips[o] = 990 /\ puntata[o] = 10
                  /\ piatto = 15 /\ puntata_corrente = 10

\* a hand has started with a seat that holds less than its blind
C14_Testimone ==
    /\ ultimo.op = "nuova_mano"
    /\ ultimo.esito = "ok"
    /\ \/ chips_inizio_mano[dealer_button] < piccolo_blind
       \/ chips_inizio_mano[1 - dealer_button] < grande_blind
    /\ \E p \in Seats : chips[p] = 0

\* the hand_result sent to seat s by the step, << >> if there is none
RisultatoInviato(s) == Messaggi(inviati'[s], "hand_result")

\* C15: at a showdown the seat whose seven cards evaluate to the strictly
\* greater key is credited the whole pot, it alone has hands_won incremented,
\* and the hand_result names it with reason "showdown".
C15_Showdown ==
    [][ ultimo'.op = "showdown" /\ ultimo'.esito = "mano_finita" =>
            LET k == [p \in Seats |-> evaluate_hand(carte[p] \o carte_comuni)]
            IN  \A p \in Seats :
                    chiave_maggiore(k[p], k[1 - p]) =>
                        /\ chips' = [chips EXCEPT ![p] = @ + piatto]
                        /\ mani_vinte' = [mani_vinte EXCEPT ![p] = @ + 1]
                        /\ piatto' = 0
                        /\ \A s \in Seats :
                              /\ Len(RisultatoInviato(s)) = 1
                              /\ RisultatoInviato(s)[1].winner_id = p
                              /\ RisultatoInviato(s)[1].reason = "showdown"
                              /\ RisultatoInviato(s)[1].pot = piatto ]_vars

\* seat 1 has won a showdown with a pair or better against a lower key
C15_Testimone ==
    /\ ultimo.op = "showdown"
    /\ ultimo.importo < 0
    /\ evaluate_hand(carte[1] \o carte_comuni).rank >= PAIR
    /\ chips[1] > chips[0]

\* C16: when the two seats' keys are equal the result has reason "split", each
\* seat is credited pot // 2 and has hands_won incremented, the pot becomes 0
\* and the remainder of an odd pot is credited to nobody.
C16_Split ==
    [][ /\ ultimo'.op = "showdown"
        /\ ultimo'.esito = "mano_finita"
        /\ evaluate_hand(carte[0] \o carte_comuni) = evaluate_hand(carte[1] \o carte_comuni)
        => /\ chips' = [p \in Seats |-> chips[p] + piatto \div 2]
           /\ mani_vinte' = [p \in Seats |-> mani_vinte[p] + 1]
           /\ piatto' = 0
           /\ chips'[0] + chips'[1] = chips[0] + chips[1] + piatto - (piatto % 2)
           /\ \A s \in Seats :
                 /\ Len(RisultatoInviato(s)) = 1
                 /\ RisultatoInviato(s)[1].reason = "split"
                 /\ RisultatoInviato(s)[1].pot = piatto ]_vars

\* an odd pot has been split
C16_Testimone ==
    /\ ultimo.op = "showdown"
    /\ ultimo.importo = 0
    /\ Len(Messaggi(inviati[0], "hand_result")) = 1
    /\ Messaggi(inviati[0], "hand_result")[1].reason = "split"
    /\ Messaggi(inviati[0], "hand_result")[1].pot % 2 = 1

\* the step credits a pot: a hand ends, or a lost seat is handled
PiattoAssegnato ==
    /\ piatto > 0
    /\ ultimo'.esito \in {"mano_finita", "disconnesso"}

\* C17 as claimed: every pot award, whatever its reason, leaves the pot at 0
\* and sends every connected seat a hand_result with the amount, one of the
\* reasons fold, timeout, showdown, split, disconnect, the hole cards of the
\* seats not folded and the stats.
C17_Originale ==
    [][ PiattoAssegnato =>
            /\ piatto' = 0
            /\ \A s \in Seats :
                  connesso'[s] =>
                      /\ Len(RisultatoInviato(s)) = 1
                      /\ RisultatoInviato(s)[1].pot = piatto
                      /\ RisultatoInviato(s)[1].reason \in
                            {"fold", "timeout", "showdown", "split", "disconnect"}
                      /\ RisultatoInviato(s)[1].all_cards =
                            [p \in NonFoldati(Stato') |-> carte[p]]
                      /\ RisultatoInviato(s)[1].stats.mani_vinte = mani_vinte' ]_vars

\* the cards a message carries
CarteNelMessaggio(m) ==
    CASE m.type = "deal" -> {m.cards[i] : i \in 1..Len(m.cards)}
      [] m.type = "game_state" -> {m.community_cards[i] : i \in 1..Len(m.community_cards)}
      [] m.type = "hand_result" ->
            UNION {{m.all_cards[p][i] : i \in 1..Len(m.all_cards[p])} : p \in DOMAIN m.all_cards}
      [] OTHER -> {}

C19_Originale ==
    pc = "giro" => puntata_corrente = Max(puntata[0], puntata[1])

\* the cards dealt in the current hand, in the order they left the deck
CarteDate == carte[0] \o carte[1] \o carte_comuni

\* C20: within a hand the hole cards and the community cards are pairwise
\* distinct, and together with the cards left in the deck they are the 52
\* cards of one deck, each once.
C20_CarteDistinte ==
    pc \in {"giro", "continua"} =>
        /\ \A i, j \in 1..Len(CarteDate) : i # j => CarteDate[i] # CarteDate[j]
        /\ Len(carte[0]) = 2 /\ Len(carte[1]) = 2 /\ Len(carte_comuni) <= 5
        /\ Len(mazzo) + Len(CarteDate) = 52
        /\ {mazzo[i] : i \in 1..Len(mazzo)} \cup {CarteDate[i] : i \in 1..Len(CarteDate)}
              = {Card(v, s) : v \in VALUES, s \in SUITS}

\* the river has been dealt: seven cards are out
C20_Testimone ==
    /\ pc = "giro"
    /\ fase = "river"
    /\ Len(CarteDate) = 9

\* C21: evaluate_hand returns the same key whatever the order of its 5 to 7
\* cards: exchanging two neighbours of the list never changes the result
\* (every order of a list is reached by such exchanges).
C21_OrdineIndifferente ==
    [][ valutazione.op = "permutata" /\ valutazione'.op = "evaluate_hand"
        => valutazione'.chiave = valutazione.chiave ]_vars

\* seven cards, three pairs and a king, evaluated with the king moved from the
\* last place to the first
C21_Testimone ==
    /\ valutazione.op = "evaluate_hand"
    /\ Len(valutazione.cards) = 7
    /\ valutazione.cards[1] = Card(13, 0)
    /\ valutazione.cards[7] = Card(5, 3)
    /\ valutazione.chiave = [rank |-> TWO_PAIR, values |-> << 14, 5, 13 >>]

\* the number of pairs of positions of the hand that hold the same rank:
\* 1 for a pair, 2 for two pair, 3 for three of a kind, 4 for a full house,
\* 6 for four of a kind
CoppieUguali(cards) ==
    Cardinality({ij \in (1..5) \X (1..5) :
                    ij[1] < ij[2] /\ cards[ij[1]] % 13 = cards[ij[2]] % 13})

\* five ranks in a row, the ace above the king or below the two
InFila(cards) ==
    \E basso \in 0..9 :
        {cards[i] % 13 : i \in 1..5} = {(basso + k + 12) % 13 : k \in 0..4}

UnSeme(cards) == \A i, j \in 1..5 : cards[i] \div 13 = cards[j] \div 13

\* the category of five cards by the rules of poker
CategoriaVera(cards) ==
    IF InFila(cards) /\ UnSeme(cards)
        THEN IF {cards[i] % 13 : i \in 1..5} = 8..12 THEN ROYAL_FLUSH ELSE STRAIGHT_FLUSH
    ELSE IF CoppieUguali(cards) = 6 THEN FOUR_OF_A_KIND
    ELSE IF CoppieUguali(cards) = 4 THEN FULL_HOUSE
    ELSE IF UnSeme(cards) THEN FLUSH
    ELSE IF InFila(cards) THEN STRAIGHT
    ELSE IF CoppieUguali(cards) = 3 THEN THREE_OF_A_KIND
    ELSE IF CoppieUguali(cards) = 2 THEN TWO_PAIR
    ELSE IF CoppieUguali(cards) = 1 THEN PAIR
    ELSE HIGH_CARD

\* C22: the categories are ordered high card < pair < two pair < three of a
\* kind < straight < flush < full house < four of a kind < straight flush <
\* royal flush; the key of a five-card hand carries the hand's true category;
\* and of two hands of different categories the one of the higher category
\* wins the comparison, both as keys and for compare_hands, whatever the
\* values that follow the category.
C22_Categorie ==
    /\ HIGH_CARD < PAIR /\ PAIR < TWO_PAIR /\ TWO_PAIR < THREE_OF_A_KIND
    /\ THREE_OF_A_KIND < STRAIGHT /\ STRAIGHT < FLUSH /\ FLUSH < FULL_HOUSE
    /\ FULL_HOUSE < FOUR_OF_A_KIND /\ FOUR_OF_A_KIND < STRAIGHT_FLUSH
    /\ STRAIGHT_FLUSH < ROYAL_FLUSH
    /\ valutazione.op \in {"evaluate_hand", "compare_hands"} =>
          valutazione.chiave.rank = CategoriaVera(valutazione.cards)
    /\ valutazione.op = "compare_hands" =>
          LET k1 == valutazione.chiave
              k2 == evaluate_hand(valutazione.altra)
          IN  /\ k2.rank = CategoriaVera(valutazione.altra)
              /\ k1.rank > k2.rank =>
                    /\ valutazione.confronto = 1
                    /\ chiave_maggiore(k1, k2) /\ ~chiave_maggiore(k2, k1)
              /\ k1.rank < k2.rank =>
                    /\ valutazione.confronto = -1
                    /\ chiave_maggiore(k2, k1) /\ ~chiave_maggiore(k1, k2)

\* a pair of twos has beaten A-K-Q-J-9 of mixed suits
C22_Testimone ==
    /\ valutazione.op = "compare_hands"
    /\ valutazione.chiave.rank = PAIR
    /\ valutazione.chiave.values[1] = 2
    /\ valutazione.altra = << Card(14, 0), Card(13, 1), Card(12, 0), Card(11, 0), Card(9, 0) >>
    /\ valutazione.confronto = 1

\* the ranks of a hand, 2..14
Ranghi(cards) == {(cards[i] % 13) + 2 : i \in 1..Len(cards)}

\* A-2-3-4-5 not all of one suit
RuotaMista(cards) == Ranghi(cards) = {14, 2, 3, 4, 5} /\ ~UnSeme(cards)

\* C23: A-2-3-4-5 of mixed suits is a straight with 5 as its high card; it
\* loses to a 6-high straight and beats every three of a kind; and in a hand
\* whose ranks are not A-2-3-4-5 the ace is never low: the ace is 14 in the
\* key, and a straight or straight flush that holds an ace is 10-J-Q-K-A with
\* 14 as its high card (A-2-3-4-5 of one suit is a straight flush with 5 as
\* its high card).
C23_Ruota ==
    LET cards == valutazione.cards
        altra == valutazione.altra
        k == valutazione.chiave
    IN  /\ valutazione.op \in {"evaluate_hand", "compare_hands"} =>
              /\ RuotaMista(cards) => k = [rank |-> STRAIGHT, values |-> << 5 >>]
              /\ Ranghi(cards) = {14, 2, 3, 4, 5} /\ UnSeme(cards) =>
                    k = [rank |-> STRAIGHT_FLUSH, values |-> << 5 >>]
              /\ Ranghi(cards) # {14, 2, 3, 4, 5} /\ 14 \in Ranghi(cards) =>
                    /\ \E i \in 1..Len(k.values) : k.values[i] = 14
                    /\ \A i \in 1..Len(k.values) : k.values[i] \in Ranghi(cards)
                    /\ k.rank \in {HIGH_CARD, FLUSH} => k.values[1] = 14
                    /\ k.rank \in {STRAIGHT, STRAIGHT_FLUSH, ROYAL_FLUSH} =>
                          Ranghi(cards) = 10..14 /\ k.values = << 14 >>
        /\ valutazione.op = "compare_hands" =>
              /\ RuotaMista(cards) /\ Ranghi(altra) = 2..6 /\ ~UnSeme(altra) =>
                    valutazione.confronto = -1
              /\ RuotaMista(altra) /\ Ranghi(cards) = 2..6 /\ ~UnSeme(cards) =>
                    valutazione.confronto = 1
              /\ RuotaMista(cards) /\ CategoriaVera(altra) = THREE_OF_A_KIND =>
                    valutazione.confronto = 1
              /\ RuotaMista(altra) /\ CategoriaVera(cards) = THREE_OF_A_KIND =>
                    valutazione.confronto = -1

\* A-2-3-4-5 with the ace of hearts has beaten three aces with K-Q
C23_Testimone ==
    /\ valutazione.op = "compare_hands"
    /\ RuotaMista(valutazione.cards)
    /\ valutazione.chiave.values = << 5 >>
    /\ valutazione.altra = << Card(14, 0), Card(14, 1), Card(14, 2), Card(13, 0), Card(12, 1) >>
    /\ valutazione.confronto = 1

\* C24 as claimed: game_over is the last message a seat is sent: a step sends
\* a seat at most one game_over, nothing after it, and the step that follows
\* one that sent a seat game_over sends that seat nothing.
C24_Originale ==
    [][ \A s \in Seats :
          /\ Len(Messaggi(inviati'[s], "game_over")) <= 1
          /\ HaMessaggio(inviati'[s], "game_over") =>
                inviati'[s][Len(inviati'[s])].type = "game_over"
          /\ HaMessaggio(inviati[s], "game_over") => inviati'[s] = << >> ]_vars

\* C25 as claimed: a check is accepted only when the current bet minus the
\* seat's round contribution is exactly 0; an accepted check changes no stack,
\* contribution, pot or current bet, marks the seat as having acted and
\* passes the turn to the other seat.
C25_Originale ==
    [][ PassoTurno("check") /\ ultimo'.esito = "accettata"
        => LET p == giocatore_attivo
           IN  /\ puntata_corrente - puntata[p] = 0
               /\ UNCHANGED << chips, puntata, piatto, puntata_corrente >>
               /\ giocatori_agiti' = giocatori_agiti \cup {p}
               /\ giocatore_attivo' = 1 - p ]_vars

\* C26: a call moves min(current bet - contribution, stack) chips from the
\* caller's stack to its round contribution and to the pot, announces that
\* amount, leaves the current bet and the other seat alone, and the caller is
\* flagged all-in exactly when its stack is 0 afterwards.
C26_Call ==
    [][ PassoTurno("call") /\ ultimo'.esito = "accettata"
        => LET p == giocatore_attivo
               d == Min(puntata_corrente - puntata[p], chips[p])
           IN  /\ chips' = [chips EXCEPT ![p] = @ - d]
               /\ puntata' = [puntata EXCEPT ![p] = @ + d]
               /\ piatto' = piatto + d
               /\ puntata_corrente' = puntata_corrente
               /\ all_in'[p] <=> chips'[p] = 0
               /\ all_in'[1 - p] = all_in[1 - p]
               /\ \A s \in Seats :
                     /\ Len(Messaggi(inviati'[s], "player_action")) = 1
                     /\ Messaggi(inviati'[s], "player_action")[1].amount = d ]_vars

\* a seat has called with its whole stack, which was less than the amount to
\* call
C26_Testimone ==
    /\ ultimo.azione = "call"
    /\ ultimo.esito = "accettata"
    /\ ultimo.importo > 0
    /\ all_in[ultimo.id]
    /\ chips[ultimo.id] = 0
    /\ puntata[ultimo.id] < puntata_corrente

\* C27 as claimed: an accepted raise moves min(amount, stack) from the raiser's
\* stack to its round contribution and to the pot, sets the current bet to the
\* raiser's new contribution, flags the raiser all-in exactly when its stack
\* is 0 afterwards, and resets the acted set to the raiser alone, so that the
\* other seat, if it can still act, is the next to be prompted and the round
\* cannot end before that.
C27_Originale ==
    [][ PassoTurno("raise") /\ ultimo'.esito = "accettata"
        => LET p == giocatore_attivo
               q == 1 - giocatore_attivo
               imp == Min(ultimo'.importo, chips[p])
           IN  /\ chips' = [chips EXCEPT ![p] = @ - imp]
               /\ puntata' = [puntata EXCEPT ![p] = @ + imp]
               /\ piatto' = piatto + imp
               /\ puntata_corrente' = puntata'[p]
               /\ all_in'[p] <=> chips'[p] = 0
               /\ giocatori_agiti' = {p}
               /\ ~foldato'[q] /\ ~all_in'[q] =>
                     /\ giocatore_attivo' = q
                     /\ ~GiroFinito(Stato', giocatori_agiti') ]_vars

\* C28: a voluntary fold marks the seat folded and ends the hand at once: the
\* whole pot goes to the other seat, whose hands_won grows by one, with a
\* hand_result of reason "fold"; the folder's stack does not change; and
\* nobody is prompted after the fold until the next hand (the match loop goes
\* on to the "continue?" question).
C28_Fold ==
    [][ /\ PassoTurno("fold")
           => LET p == giocatore_attivo
                  q == 1 - giocatore_attivo
              IN  /\ ultimo'.esito = "mano_finita"
                  /\ foldato'[p] /\ ~foldato'[q]
                  /\ chips' = [chips EXCEPT ![q] = @ + piatto]
                  /\ mani_vinte' = [mani_vinte EXCEPT ![q] = @ + 1]
                  /\ piatto' = 0
                  /\ pc' = "continua"
                  /\ \A s \in Seats :
                        /\ Len(RisultatoInviato(s)) = 1
                        /\ RisultatoInviato(s)[1].reason = "fold"
                        /\ RisultatoInviato(s)[1].winner_id = q
                        /\ RisultatoInviato(s)[1].pot = piatto
                        /\ \A i \in 2..Len(inviati'[s]) : inviati'[s][i].type # "your_turn"
                  /\ ~HaMessaggio(inviati'[q], "your_turn")
        /\ pc = "continua"
           => \A s \in Seats : ~HaMessaggio(inviati'[s], "your_turn") ]_vars

\* a seat has folded on the flop and the other seat has the pot
C28_Testimone ==
    /\ ultimo.azione = "fold"
    /\ ultimo.esito = "mano_finita"
    /\ fase = "flop"
    /\ foldato[ultimo.id]
    /\ chips[ultimo.id] < chips_inizio_mano[ultimo.id]
    /\ chips[1 - ultimo.id] > chips_inizio_mano[1 - ultimo.id]
    /\ mani_vinte[1 - ultimo.id] >= 1
    /\ piatto = 0

\* the number of community cards that goes with a phase
NumeroCarte(f) ==
    CASE f = "flop" -> 3
      [] f = "turn" -> 4
      [] f = "river" -> 5
      [] OTHER -> 0

\* C29: the community cards are 0, 3, 4, 5 in the phases pre-flop, flop, turn,
\* river; within a hand they only grow, at the end, by 3, 1 and 1; and a
\* post-flop round starts with both round contributions and the current bet
\* at 0, the pot and the stacks as they were, and the seat that is not the
\* dealer as the active seat.
C29_CarteComuni ==
    [][ /\ Len(carte_comuni) = NumeroCarte(fase)
        /\ Len(carte_comuni') = NumeroCarte(fase')
        /\ ultimo'.op # "nuova_mano" =>
              /\ Len(carte_comuni') >= Len(carte_comuni)
              /\ SubSeq(carte_comuni', 1, Len(carte_comuni)) = carte_comuni
        /\ ultimo'.op = "prossima_fase" =>
              Len(carte_comuni') - Len(carte_comuni) = IF fase = "pre_flop" THEN 3 ELSE 1
        /\ ultimo'.op = "prossima_fase" /\ ultimo'.esito = "ok" =>
              /\ puntata' = [p \in Seats |-> 0]
              /\ puntata_corrente' = 0
              /\ piatto' = piatto
              /\ chips' = chips
              /\ dealer_button' = dealer_button
              /\ giocatore_attivo' = 1 - dealer_button ]_vars

\* the river round starts after a raise has been called earlier in the hand
C29_Testimone ==
    /\ ultimo.op = "prossima_fase"
    /\ ultimo.esito = "ok"
    /\ fase = "river"
    /\ Len(carte_comuni) = 5
    /\ piatto > 2 * grande_blind
    /\ puntata_corrente = 0
    /\ giocatore_attivo = 1 - dealer_button

\* C30: nuova_mano clears what belongs to one hand: no community card, no
\* folded or all-in flag, two new hole cards per seat from a new deck, and
\* pot, round contributions and current bet at 0 before the blinds are posted
\* (when the hand starts they hold the blinds and nothing else); the stacks
\* (but for the blinds) and hands_won stay as they were, hands_played grows by
\* exactly 1 for both seats, and the dealer button goes to the other seat.
C30_NuovaMano ==
    [][ ultimo'.op = "nuova_mano"
        => /\ carte_comuni' = << >>
           /\ fase' = "pre_flop"
           /\ foldato' = [p \in Seats |-> FALSE]
           /\ all_in' = [p \in Seats |-> FALSE]
           /\ \A p \in Seats : Len(carte'[p]) = 2
           /\ Len(mazzo') = 48
           /\ {mazzo'[i] : i \in 1..48} \cup {carte'[p][i] : p \in Seats, i \in 1..2}
                 = {Card(v, s) : v \in VALUES, s \in SUITS}
           /\ mani_giocate' = [p \in Seats |-> mani_giocate[p] + 1]
           /\ mani_vinte' = mani_vinte
           /\ dealer_button' = 1 - dealer_button
           /\ dealer_button \in Seats
           /\ \A p \in Seats : chips'[p] + puntata'[p] = chips[p]
           /\ piatto' = puntata'[0] + puntata'[1]
           /\ ultimo'.esito # "ok" =>
                 /\ piatto' = 0
                 /\ puntata' = [p \in Seats |-> 0]
                 /\ puntata_corrente' = 0 ]_vars

\* the second hand has started: the stacks are those the first hand left, the
\* dealer is seat 0 after seat 1
C30_Testimone ==
    /\ ultimo.op = "nuova_mano"
    /\ ultimo.esito = "ok"
    /\ mani_giocate = [p \in Seats |-> 2]
    /\ dealer_button = 0
    /\ \E p \in Seats : mani_vinte[p] = 1 /\ chips_inizio_mano[p] > chips_iniziali
    /\ foldato = [p \in Seats |-> FALSE]
    /\ all_in = [p \in Seats |-> FALSE]

\* the cards of the list at the positions T, in the order of the list
InOrdineDi(cards, T) == [i \in 1..Cardinality(T) |-> cards[InOrdine(T)[i]]]

\* the keys of the hands of five cards taken from cards
ChiaviDiCinque(cards) ==
    { _evaluate_five_cards(InOrdineDi(cards, T)) :
        T \in {U \in SUBSET (1..Len(cards)) : Cardinality(U) = 5} }

\* k1 is above k2: by category, then by the first value that differs
PiuForte(k1, k2) ==
    \/ k1.rank > k2.rank
    \/ /\ k1.rank = k2.rank
       /\ \E i \in 1..Len(k1.values) :
             /\ i <= Len(k2.values)
             /\ k1.values[i] > k2.values[i]
             /\ \A j \in 1..(i - 1) : k1.values[j] = k2.values[j]

\* C31: of 5, 6 or 7 cards evaluate_hand returns the key of one of the hands
\* of five cards taken from them, and none of those hands has a key above it
\* (category first, then the values one by one); of fewer than 5 cards it
\* raises ValueError and returns no key.
C31_Migliore ==
    /\ valutazione.op = "evaluate_hand" =>
          /\ Len(valutazione.cards) >= 5
          /\ valutazione.chiave \in ChiaviDiCinque(valutazione.cards)
          /\ \A k \in ChiaviDiCinque(valutazione.cards) : ~PiuForte(k, valutazione.chiave)
    /\ valutazione.op = "ValueError" =>
          /\ Len(valutazione.cards) < 5
          /\ valutazione.chiave = NessunaValutazione.chiave

\* seven cards that hold A-2-3-4-5 and 2-3-4-5-6 of spades: the key is the
\* 6-high straight flush
C31_Testimone ==
    /\ valutazione.op = "evaluate_hand"
    /\ Len(valutazione.cards) = 7
    /\ {Card(v, 0) : v \in {14, 2, 3, 4, 5, 6}} \subseteq
          {valutazione.cards[i] : i \in 1..7}
    /\ valutazione.chiave = [rank |-> STRAIGHT_FLUSH, values |-> << 6 >>]

\* the chips in play: the two stacks and the pot
ChipsInGioco == chips[0] + chips[1] + piatto

\* C32: the match starts with twice the starting stack in play, and no step
\* after which the server prompts a seat, starts a hand or ends the match of
\* its own accord changes the chips in play, except that a split showdown
\* drops the odd chip of an odd pot.
C32_ChipsConservate ==
    /\ ChipsInGioco = 2 * chips_iniziali
    /\ [][ ultimo'.esito # "invio_fallito"
           => ChipsInGioco' = ChipsInGioco
                - (IF ultimo'.op = "showdown" /\ ultimo'.importo = 0
                   THEN piatto % 2 ELSE 0) ]_vars

\* after a split pot of 7 the next hand is about to start with 1999 chips
C32_Testimone ==
    /\ pc = "nuova_mano"
    /\ ultimo.op = "chiedi_continua"
    /\ mani_giocate[0] = 2
    /\ piatto = 0
    /\ chips[0] + chips[1] = 2 * chips_iniziali - 1

\* C33 as claimed: in every game_state sent, the stacks and the pot it
\* reports add up to the chips in play when the step began.
C33_Originale ==
    [][ \A s \in Seats : \A i \in 1..Len(inviati'[s]) :
            LET m == inviati'[s][i]
            IN  m.type = "game_state" =>
                    m.chips[0] + m.chips[1] + m.pot = ChipsInGioco ]_vars

\* C34 as claimed: while a hand is being played, a seat that has not folded
\* has no chips exactly when its all-in flag is set, and the seat about to be
\* sent your_turn has chips.
C34_Originale ==
    pc = "giro" =>
        /\ \A p \in Seats : ~foldato[p] => (chips[p] = 0 <=> all_in[p])
        /\ DeveAgire => chips[giocatore_attivo] > 0

\* C35: whenever the match loop is about to call nuova_mano both stacks are
\* strictly positive, and so were the stacks every started hand began with.
C35_ManoConChips ==
    /\ pc = "nuova_mano" => \A p \in Seats : chips[p] > 0
    /\ ultimo.op = "nuova_mano" => \A p \in Seats : chips_inizio_mano[p] > 0

\* a second hand has started with a seat that had 2 chips left
C35_Testimone ==
    /\ ultimo.op = "nuova_mano"
    /\ mani_giocate[0] = 2
    /\ \E p \in Seats : chips_inizio_mano[p] = 2

\* the server step takes out of seat p's buffer a message that was there
\* before the step sent its prompt
LettoDalBuffer(p) ==
    /\ ultimo'.op \in {"turno", "chiedi_continua"}
    /\ Len(buffer'[p]) < Len(buffer[p])

\* C36 as claimed: no server step applies, as a seat's answer to the
\* your_turn or ask_continue it has just sent, a message the seat had
\* written before that prompt.
C36_Originale ==
    [][ \A p \in Seats : ~LettoDalBuffer(p) ]_vars

\* C37 as claimed: if from some point on no action is refused, a betting
\* round in which a seat has to act comes to its end.
C37_Originale ==
    (<>[](ultimo.esito # "errore")) => (DeveAgire ~> ~DeveAgire)

\* the seat a showdown step has found strictly stronger
VincitoreShowdown == IF ultimo'.importo > 0 THEN 0 ELSE 1

\* C38: a showdown with a strictly stronger hand credits the whole pot to
\* that seat's stack and nothing to the other seat, whatever each of them
\* put into the pot.
C38_PiattoIntero ==
    [][ pc = "giro" /\ ultimo'.op = "showdown" /\ ultimo'.importo # 0
        => LET w == VincitoreShowdown
           IN  /\ compare_hands(carte[w] \o carte_comuni,
                                carte[1 - w] \o carte_comuni) = 1
               /\ chips' = [chips EXCEPT ![w] = @ + piatto]
               /\ piatto' = 0 ]_vars

\* a seat that started the hand with 2 chips has won a showdown and now holds
\* more than twice that: it gained more than it can have put into the pot
C38_Testimone ==
    /\ ultimo.op = "showdown"
    /\ ultimo.esito = "mano_finita"
    /\ \E w \in Seats :
          /\ (ultimo.importo > 0 /\ w = 0) \/ (ultimo.importo < 0 /\ w = 1)
          /\ chips_inizio_mano[w] = 2
          /\ chips[w] > 2 * chips_inizio_mano[w]
          /\ chips[1 - w] > 0

\* C39 as claimed: while a betting round is in progress no step that handles
\* a seat's turn lowers the pot or a seat's round contribution, or raises a
\* stack.
C39_Originale ==
    [][ pc = "giro" /\ ultimo'.op = "turno" /\ pc' = "giro"
        => /\ piatto' >= piatto
           /\ \A p \in Seats : /\ puntata'[p] >= puntata[p]
                               /\ chips'[p] <= chips[p] ]_vars

====
